---- MODULE Spec2Model ----
(***************************************************************************)
(* The transaction service (Deposit / Withdraw / Transfer) of              *)
(* internal/svc/transaction, the wallet ledger it calls over RPC           *)
(* (wallet handler -> wallet service with its Redis cache -> wallet        *)
(* repository with SELECT ... FOR UPDATE), and the stores behind them.     *)
(*                                                                         *)
(* Every request runs on one of the slots in Procs; a slot executes the    *)
(* handler one blocking call at a time, so that calls of different         *)
(* requests interleave.  Every database, cache and RPC call may fail.      *)
(***************************************************************************)
EXTENDS Integers, Sequences, FiniteSets, TLC

\* ------------------------------------------------------------------ bounds
\* Number of requests issued in one behaviour (each gets a fresh uuid).
MaxRequests == 2
\* Balance the first wallet is created with (the second is created empty).
InitBalance == 1
\* Largest amount a caller sends.
MaxAmount == 1

\* Rows of the transactions table a history query reads.
MaxRows == 2
\* Largest amount of such a row, largest page and largest limit a query asks for.
MaxRowAmount == 2
MaxPage == 3
MaxLimit == 2

\* Rows inserted into transaction_events, and the latest value of the clock.
MaxEvents == 3
MaxTime == 2

\* User ids (uuids) handed out, and calls of the user repository in one behaviour.
MaxUsers == 2
MaxUserCalls == 3
\* Calls of the auth service in one behaviour.
MaxAuthCalls == 4

\* The request slots, in the order a new request takes them.
Procs == {1, 2}
\* The row lock of a wallet is held by no one.
Unlocked == 0
\* Wallet rows that exist; "w9" is a well-formed id with no row.
Wallets == {"w1", "w2"}
WalletIds == Wallets \cup {"w9"}
NoWallet == "nil"
\* wallets.user_id: one wallet per user.
Owner(w) == IF w = "w1" THEN "u1" ELSE "u2"
\* wallets.block_reason: NULL, or the reason a BlockWallet request gave.
NullReason == "NULL"
Reasons == {"fraud"}
\* Amounts a caller sends to Deposit/Withdraw/Transfer (0 is the invalid one).
Amounts == 0..MaxAmount
\* Signed amounts a caller sends straight to the ledger's UpdateBalance.
SignedAmounts == {0 - MaxAmount, MaxAmount}
\* Idempotency keys of the request messages; NoKey is the empty string.
NoKey == ""
Keys == {"k1"}

\* ------------------------------------------------------------ enumerations
Deposit == "deposit"
Withdraw == "withdraw"
Transfer == "transfer"
\* Requests sent to the wallet service itself.
UpdateBalanceRPC == "UpdateBalance"
BlockWallet == "BlockWallet"
UnblockWallet == "UnblockWallet"
SagaKinds == {Deposit, Withdraw, Transfer}
\* RPCs of the transaction service that GRPCHandler leaves to the generated stub.
RetryTransaction == "RetryTransaction"
CompensateTransaction == "CompensateTransaction"
StubKinds == {RetryTransaction, CompensateTransaction}

Pending == "pending"
Completed == "completed"
Failed == "failed"

EventCreated == "created"
EventCompleted == "completed"
\* Declared by the model package and used by no code.
EventNotificationSent == "notification_sent"

NotifyDeposit == "deposit"
NotifyWithdrawal == "withdrawal"
NotifyTransferSent == "transfer_sent"
NotifyTransferReceived == "transfer_received"

\* Errors of the transaction service (sentinels, then the wrapped ones by message).
NoErr == "nil"
ErrInvalidAmount == "invalid amount: must be greater than zero"
ErrSameWallet == "source and destination wallets cannot be the same"
ErrWalletNotFound == "wallet not found"
ErrInsufficientFunds == "insufficient funds for this transaction"
ErrBeginTx == "failed to start transaction"
ErrCreate == "failed to create transaction"
ErrAddEvent == "failed to add transaction event"
ErrUpdateWallet == "failed to update wallet balance"
ErrUpdateSource == "failed to update source wallet balance"
ErrUpdateDestination == "failed to update destination wallet balance"
ErrUpdateStatus == "failed to update transaction status"
ErrCommit == "failed to commit transaction"
ErrTransactionFailed == "transaction failed"
\* The status error of UnimplementedTransactionServiceServer (codes.Unimplemented).
Unimplemented == "method not implemented"

\* Results of the wallet repository.
RepoOK == "ok"
RepoErrWalletNotFound == "repository: wallet not found"
RepoErrInsufficientFunds == "repository: insufficient funds"
RepoErrDB == "repository: database error"
\* What the RPC client sees when the call itself fails.
RPCErr == "rpc: unavailable"

\* No cache entry under wallet:<id>.
NoEntry == [present |-> FALSE, balance |-> 0, is_blocked |-> FALSE]

VARIABLES
    \* wallet service
    wallets,      \* wallets table: id -> [user_id, balance, is_blocked, block_reason]
    rowLock,      \* holder of the row lock taken by SELECT ... FOR UPDATE, or Unlocked
    cache,        \* Redis: wallet:<id> -> cached wallet, or NoEntry
    \* transaction service
    transactions, \* committed rows of the transactions table: id -> row
    events,       \* committed rows of transaction_events, in created_at order
    published,    \* notifications handed to the queue
    nextId,       \* number of requests issued so far (the next uuid)
    \* one request slot
    pc,           \* position of the handler
    req,          \* the request message
    tx,           \* the *model.Transaction object of the handler
    dbTx,         \* the open database transaction and its uncommitted writes
    call,         \* the wallet-service call in progress
    rid,          \* the id of the request the slot runs (its uuid)
    \* history (not read by the program)
    before,       \* wallet balances when the request was issued
    disturbed,    \* another request changed a wallet of this request since
    issued,       \* request id -> the request message
    returned,     \* request id -> what the handler returned to its caller
    applied,      \* request id -> the balance changes the ledger committed for it
    overlapped,   \* request id -> the requests in progress when it was issued
    \* GetTransactionHistory
    history,      \* the table a history query reads, its filter and its response
    \* the transaction_events table on its own
    eventLog,     \* its rows in insertion order, and the answer of the last query
    \* user repository
    users,        \* users table: id -> row, or NoUser
    userCache,    \* Redis: user:<id> and username:<name> -> cached user, or NoUser
    nextUser,     \* number of user ids generated so far (the next uuid)
    userPc,       \* position of the repository call of a caller
    userOp,       \* the call in progress: its arguments and what it read
    userLog,      \* the calls that returned, in order (not read by the program)
    userCacheErr, \* a SetUser or DeleteUser has failed (not read by the program)
    \* auth service
    userAuth,     \* user_auth table: id -> hashed password, or NoHash
    refreshTokens,\* Redis: the refresh_token:<user>:<token> keys
    passwordLock, \* Redis: the users with a password_lock:<user> key
    nextToken,    \* number of tokens signed so far (the next jti)
    authPc,       \* position of the auth call of a caller
    authReq,      \* its request
    authLocal,    \* its local variables
    authLog       \* the calls that returned, in order (not read by the program)

vars == <<wallets, rowLock, cache, transactions, events, published, nextId,
          pc, req, tx, dbTx, call, rid, before, disturbed, issued, returned, applied,
          overlapped, history, eventLog,
          users, userCache, nextUser, userPc, userOp, userLog, userCacheErr,
          userAuth, refreshTokens, passwordLock, nextToken, authPc, authReq, authLocal, authLog>>

\* The variables of the user repository and of the auth service.
userStoreVars == <<users, userCache, nextUser>>
userCallVars == <<userPc, userOp, userLog, userCacheErr>>
userVars == <<userStoreVars, userCallVars>>
authVars == <<userAuth, refreshTokens, passwordLock, nextToken, authPc, authReq, authLocal, authLog>>

\* The variables the sagas and the ledger leave alone.
restVars == <<history, eventLog, userVars, authVars>>

\* The variables of the saga and the ledger.
sagaVars == <<wallets, rowLock, cache, transactions, events, published, nextId,
              pc, req, tx, dbTx, call, rid, before, disturbed, issued, returned, applied,
              overlapped>>
walletVars == <<wallets, rowLock, cache>>
storeVars == <<transactions, events>>
histVars == <<before, disturbed, issued, applied, overlapped>>
\* The result of the request of slot p.
Ret(p) == returned[rid[p]]

\* ------------------------------------------------------------------ helpers
NoReq == [kind |-> "none", from |-> NoWallet, to |-> NoWallet, amount |-> 0, key |-> NoKey]
NoTx == [id |-> 0, type |-> "none", source |-> NoWallet, destination |-> NoWallet,
         amount |-> 0, status |-> "none"]
NoDbTx == [open |-> FALSE, row |-> NoTx, evs |-> <<>>, aborted |-> FALSE]
NoCall == [stage |-> "none", wallet |-> NoWallet, amount |-> 0, ref |-> NoKey, cur |-> 0,
           res |-> "none", row |-> NoEntry, checked |-> FALSE]
NoRet == [done |-> FALSE, err |-> NoErr, cause |-> "none", transaction_id |-> 0]

\* The wallets a request names.
ReqWallets(r) == {r.from, r.to} \ {NoWallet}

Balance(w) == wallets[w].balance

\* ------------------------------------------------------- pure computations
\* The amount check letting zero through.
InvalidAmount_Negative(amount) == amount < 0

\* Deposit/Withdraw/Transfer: "if amount <= 0 { return nil, ErrInvalidAmount }".
InvalidAmount(amount) == amount <= 0

\* Withdraw/Transfer: "if balance < amount { return nil, ErrInsufficientFunds }".
InsufficientBalance(balance, amount) == balance < amount

\* The wallet whose balance a handler reads first, and the one Transfer reads second.
FirstWallet(r) == IF r.kind = Deposit THEN r.to ELSE r.from

\* Transfer without its credit leg.
Legs_DebitOnly(r) ==
    IF r.kind = Deposit THEN << [wallet |-> r.to, isDebit |-> FALSE] >>
    ELSE << [wallet |-> r.from, isDebit |-> TRUE] >>

\* Transfer crediting the destination before it debits the source.
Legs_CreditFirst(r) ==
    IF r.kind = Deposit THEN << [wallet |-> r.to, isDebit |-> FALSE] >>
    ELSE IF r.kind = Withdraw THEN << [wallet |-> r.from, isDebit |-> TRUE] >>
    ELSE IF r.kind = Transfer THEN << [wallet |-> r.to, isDebit |-> FALSE],
                                       [wallet |-> r.from, isDebit |-> TRUE] >>
    ELSE << >>

\* The wallet legs of a request, in the order the handler issues them:
\* Deposit credits walletID, Withdraw debits walletID, Transfer debits
\* fromWalletID and then credits toWalletID.
Legs(r) ==
    IF r.kind = Deposit THEN << [wallet |-> r.to, isDebit |-> FALSE] >>
    ELSE IF r.kind = Withdraw THEN << [wallet |-> r.from, isDebit |-> TRUE] >>
    ELSE IF r.kind = Transfer THEN << [wallet |-> r.from, isDebit |-> TRUE],
                                       [wallet |-> r.to, isDebit |-> FALSE] >>
    ELSE << >>

\* The amount field of the ledger's UpdateBalanceRequest ("positive for credit,
\* negative for debit") for a client call UpdateBalance(walletID, amount, isDebit).
SignedAmount(amount, isDebit) == IF isDebit THEN 0 - amount ELSE amount

\* UpdateBalance writing back the balance it read.
NewBalance_Keep(currentBalance, amount) == currentBalance

\* walletRepository.UpdateBalance: "newBalance := currentBalance + amount".
NewBalance(currentBalance, amount) == currentBalance + amount

\* UpdateBalance without its check of the new balance.
NegativeBalance_Never(newBalance) == FALSE

\* walletRepository.UpdateBalance: "if newBalance < 0 { return nil, ErrInsufficientFunds }".
NegativeBalance(newBalance) == newBalance < 0

\* wallets.balance: CHECK (balance >= 0).
BalanceCheck(balance) == balance >= 0

\* A transaction record with source and destination exchanged.
NewTransaction_Swapped(id, r) ==
    [id |-> id, type |-> r.kind, source |-> r.to, destination |-> r.from,
     amount |-> r.amount, status |-> Pending]

\* model.NewTransaction: the id is a fresh uuid, the status Pending.
NewTransaction(id, r) ==
    [id |-> id, type |-> r.kind, source |-> r.from, destination |-> r.to,
     amount |-> r.amount, status |-> Pending]

\* The status UpdateTransactionStatus is called with once the legs are applied.
FinalStatus == Completed

\* The error a handler wraps a failed leg in.
LegError(r, leg) ==
    IF r.kind = Transfer
    THEN (IF leg = 1 THEN ErrUpdateSource ELSE ErrUpdateDestination)
    ELSE ErrUpdateWallet

\* GRPCHandler.Deposit/Withdraw/Transfer: the status code of an error, by errors.Is.
StatusCode(err) ==
    IF err = NoErr THEN "OK"
    ELSE IF err = ErrWalletNotFound THEN "NotFound"
    ELSE IF err = ErrInsufficientFunds THEN "FailedPrecondition"
    ELSE IF err \in {ErrInvalidAmount, ErrSameWallet} THEN "InvalidArgument"
    ELSE "Internal"

\* The notifications a committed request publishes, in order.
Notifications(r) ==
    IF r.kind = Deposit THEN << [type |-> NotifyDeposit, wallet |-> r.to] >>
    ELSE IF r.kind = Withdraw THEN << [type |-> NotifyWithdrawal, wallet |-> r.from] >>
    ELSE << [type |-> NotifyTransferSent, wallet |-> r.from],
            [type |-> NotifyTransferReceived, wallet |-> r.to] >>

\* ---- GetTransactionsForWallet
\* "if filter.Page < 1 { filter.Page = 1 }".
EffectivePage(page) == IF page < 1 THEN 1 ELSE page

\* "if filter.Limit < 1 { filter.Limit = 10 }".
DefaultLimit == 10
EffectiveLimit(limit) == IF limit < 1 THEN DefaultLimit ELSE limit

\* Total pages by rounding down.
TotalPages_Floor(totalCount, limit) == totalCount \div limit

\* "totalPages := (totalCount + filter.Limit - 1) / filter.Limit".
TotalPages(totalCount, limit) == (totalCount + limit - 1) \div limit

\* "OFFSET (filter.Page-1)*filter.Limit".
Offset(page, limit) == (page - 1) * limit

\* The validFields map.
ValidFields == {"created_at", "amount", "transaction_type", "status"}

\* The sort column: "created_at" unless SortBy is a valid field.
SortField(sortBy) ==
    IF sortBy # "" /\ sortBy \in ValidFields THEN sortBy ELSE "created_at"

\* "DESC" unless SortAscending.
SortDirection(sortAscending) == IF sortAscending THEN "ASC" ELSE "DESC"

\* The order of the text values of transaction_type and status in the database.
TypeOrder == <<Deposit, Transfer, Withdraw>>
StatusOrder == <<Completed, Failed, Pending>>
Rank(order, x) == CHOOSE i \in 1..Len(order) : order[i] = x

\* The value ORDER BY compares for a row.
SortKey(row, sortField) ==
    IF sortField = "amount" THEN row.amount
    ELSE IF sortField = "transaction_type" THEN Rank(TypeOrder, row.type)
    ELSE IF sortField = "status" THEN Rank(StatusOrder, row.status)
    ELSE row.created_at

\* "WHERE (source_wallet_id = $1 OR destination_wallet_id = $1)".
Matches(row, walletID) == row.source = walletID \/ row.destination = walletID

\* ORDER BY sortField sortDirection: every order of the rows the database may
\* answer with (rows with equal keys come in any order).
OrderBy(rows, sortField, sortDirection) ==
    {o \in [1..Cardinality(rows) -> rows] :
        /\ \A i, j \in DOMAIN o : i # j => o[i] # o[j]
        /\ \A i, j \in DOMAIN o :
              i < j => IF sortDirection = "ASC"
                       THEN SortKey(o[i], sortField) <= SortKey(o[j], sortField)
                       ELSE SortKey(o[i], sortField) >= SortKey(o[j], sortField)}

\* "LIMIT limit OFFSET offset".
LimitOffset(ordered, limit, offset) ==
    [i \in 1..(IF Len(ordered) - offset < 0 THEN 0
               ELSE IF Len(ordered) - offset < limit THEN Len(ordered) - offset
               ELSE limit) |-> ordered[offset + i]]

\* ------------------------------------------------------------ the requests
SagaRequests ==
    [kind : {Deposit}, from : {NoWallet}, to : WalletIds, amount : Amounts, key : Keys]
    \cup [kind : {Withdraw}, from : WalletIds, to : {NoWallet}, amount : Amounts, key : Keys]
    \cup [kind : {Transfer}, from : WalletIds, to : WalletIds, amount : Amounts, key : Keys]

\* Requests to the wallet service; the key of an UpdateBalanceRequest is its
\* transaction_id ("Reference to transaction for idempotency").
WalletRequests ==
    [kind : {UpdateBalanceRPC}, from : {NoWallet}, to : WalletIds,
     amount : SignedAmounts, key : Keys]
    \cup [kind : {BlockWallet, UnblockWallet}, from : {NoWallet}, to : WalletIds,
          amount : {0}, key : {NoKey}]

\* RetryTransactionRequest / CompensateTransactionRequest name a transaction.
StubRequests ==
    [kind : StubKinds, from : {NoWallet}, to : {NoWallet}, amount : {0}, key : {NoKey},
     transaction_id : 1..MaxRequests]

Requests == SagaRequests \cup WalletRequests \cup StubRequests

\* The requests whose transaction can be committed, and the rows they leave.
CommittedRequests ==
    {r \in [kind : SagaKinds, from : Wallets \cup {NoWallet}, to : Wallets \cup {NoWallet},
             amount : 1..MaxRowAmount, key : Keys] :
        /\ r.kind = Deposit => r.from = NoWallet /\ r.to # NoWallet
        /\ r.kind = Withdraw => r.from # NoWallet /\ r.to = NoWallet
        /\ r.kind = Transfer => r.from # NoWallet /\ r.to # NoWallet /\ r.from # r.to}
CommittedRows(id) ==
    {[id |-> id, type |-> r.kind, source |-> r.from, destination |-> r.to,
      amount |-> r.amount, status |-> FinalStatus, created_at |-> c] :
        r \in CommittedRequests, c \in 1..MaxRows}
Tables ==
    UNION {{t \in [1..n -> UNION {CommittedRows(id) : id \in 1..n}] :
               \A i \in 1..n : t[i].id = i} : n \in 0..MaxRows}

\* TransactionHistoryRequest as GRPCHandler.GetTransactionHistory reads it.
SortInputs == {"", "created_at", "amount", "type", "transaction_type", "status", "id; --"}
Filters ==
    [wallet_id : Wallets, page : 0..MaxPage, limit : 0..MaxLimit,
     sort_by : SortInputs, ascending : BOOLEAN]
NoFilter == [wallet_id |-> NoWallet, page |-> 0, limit |-> 0, sort_by |-> "",
             ascending |-> FALSE]
NoResult == [answered |-> FALSE, err |-> NoErr, transactions |-> << >>,
             total_count |-> 0, page |-> 0, total_pages |-> 0]
NoHistory == [rows |-> << >>, filter |-> NoFilter, result |-> NoResult]

\* The transaction_events table empty and not queried.
NoEventLog == [rows |-> << >>, queried |-> 0, result |-> << >>]

\* --------------------------------------------------------------------- Init
SagaInit ==
    /\ wallets = [w \in Wallets |-> [user_id |-> Owner(w),
                                     balance |-> IF w = "w1" THEN InitBalance ELSE 0,
                                     is_blocked |-> FALSE, block_reason |-> NullReason]]
    /\ rowLock = [w \in Wallets |-> Unlocked]
    /\ cache = [w \in Wallets |-> NoEntry]
    /\ transactions = << >>
    /\ events = << >>
    /\ published = {}
    /\ nextId = 0
    /\ pc = [p \in Procs |-> "idle"]
    /\ req = [p \in Procs |-> NoReq]
    /\ tx = [p \in Procs |-> NoTx]
    /\ dbTx = [p \in Procs |-> NoDbTx]
    /\ call = [p \in Procs |-> NoCall]
    /\ rid = [p \in Procs |-> 0]
    /\ returned = << >>
    /\ before = [p \in Procs |-> [w \in Wallets |-> 0]]
    /\ disturbed = [p \in Procs |-> FALSE]
    /\ issued = << >>
    /\ applied = << >>
    /\ overlapped = << >>

\* The callers of the user repository and of the auth service.
UserProcs == {1, 2}
AuthProcs == {1, 2}
\* The ids uuid.New() hands out, in order.
UserIds == 1..MaxUsers
Usernames == {"ann"}
Emails == {"a@x", "b@x"}
Passwords == {"pw1", "pw2"}
\* No row in users (no entry in the cache), no row in user_auth.
NoUser == [id |-> 0, username |-> "", email |-> ""]
NoHash == [bcrypt |-> ""]
\* cacheRepository.UserIDKey and UsernameKey.
UserIDKey(id) == <<"user", id>>
UsernameKey(username) == <<"username", username>>
UserKeys == {UserIDKey(id) : id \in UserIds} \cup {UsernameKey(n) : n \in Usernames}
NoUserOp == [op |-> "none", key |-> <<>>, user |-> NoUser]
\* No token: model.Token and the JWTs in it are [user, type, jti].
NoToken == [user |-> 0, type |-> "none", jti |-> 0]
NoAuthReq == [op |-> "none", username |-> "", email |-> "", password |-> "",
              newPassword |-> "", user |-> 0, token |-> NoToken]
NoAuthLocal == [user |-> NoUser, hash |-> NoHash, err |-> NoErr]

\* The users table and the cache empty, no call in progress.
UserInit ==
    /\ users = [id \in UserIds |-> NoUser]
    /\ userCache = [k \in UserKeys |-> NoUser]
    /\ nextUser = 0
    /\ userPc = [p \in UserProcs |-> "idle"]
    /\ userOp = [p \in UserProcs |-> NoUserOp]
    /\ userLog = << >>
    /\ userCacheErr = FALSE

\* No user registered, no token stored, no lock held.
AuthInit ==
    /\ userAuth = [id \in UserIds |-> NoHash]
    /\ refreshTokens = {}
    /\ passwordLock = {}
    /\ nextToken = 0
    /\ authPc = [p \in AuthProcs |-> "idle"]
    /\ authReq = [p \in AuthProcs |-> NoAuthReq]
    /\ authLocal = [p \in AuthProcs |-> NoAuthLocal]
    /\ authLog = << >>

\* No history query is made and nothing but the sagas writes events.
Init == SagaInit /\ history = NoHistory /\ eventLog = NoEventLog /\ UserInit /\ AuthInit

\* A history query finds any table the sagas can have committed.
InitHistory ==
    /\ SagaInit
    /\ history \in {[NoHistory EXCEPT !.rows = t] : t \in Tables}
    /\ eventLog = NoEventLog
    /\ UserInit
    /\ AuthInit

\* ------------------------------------------------------------ the handlers
\* The handler of slot p is running (it has not returned to its caller).
InProgress(p) == pc[p] \notin {"idle", "done"} /\ ~Ret(p).done

\* Slot p is free: no handler and no goroutine of an earlier request runs on it.
Free(p) == pc[p] \in {"idle", "done"}

\* The handler returns err to its caller.
Return(p, err, cause) ==
    /\ pc' = [pc EXCEPT ![p] = "done"]
    /\ returned' = [returned EXCEPT ![rid[p]] =
                       [done |-> TRUE, err |-> err, cause |-> cause, transaction_id |-> 0]]

\* The request of a client call UpdateBalance(walletID, amount, isDebit): wallet id,
\* amount and operation; no transaction id is put into it.
StartCall(leg, amount) ==
    [NoCall EXCEPT !.stage = "lock", !.wallet = leg.wallet,
                   !.amount = SignedAmount(amount, leg.isDebit)]

\* A caller sends request r, which runs on the first free slot: the gRPC handler and
\* the service validate it.
Issue(p, r) ==
    /\ Free(p)
    /\ \A q \in Procs : Free(q) => ~(q < p)
    /\ nextId < MaxRequests
    /\ nextId' = nextId + 1
    /\ rid' = [rid EXCEPT ![p] = nextId + 1]
    /\ req' = [req EXCEPT ![p] = r]
    /\ tx' = [tx EXCEPT ![p] = NoTx]
    /\ dbTx' = [dbTx EXCEPT ![p] = NoDbTx]
    /\ before' = [before EXCEPT ![p] =
                    [w \in Wallets |-> IF w \in ReqWallets(r) THEN Balance(w) ELSE 0]]
    /\ disturbed' = [disturbed EXCEPT ![p] = FALSE]
    /\ issued' = Append(issued, r)
    /\ applied' = Append(applied, << >>)
    /\ overlapped' = Append(overlapped, {rid[q] : q \in {x \in Procs : InProgress(x)}})
    /\ LET failed(err) == [done |-> TRUE, err |-> err, cause |-> "validation",
                           transaction_id |-> 0]
       IN  IF r.kind \in StubKinds
           THEN /\ call' = [call EXCEPT ![p] = NoCall]
                /\ pc' = [pc EXCEPT ![p] = "done"]
                /\ returned' = Append(returned, [done |-> TRUE, err |-> Unimplemented,
                                                 cause |-> "stub", transaction_id |-> 0])
           ELSE IF r.kind \in SagaKinds
           THEN /\ call' = [call EXCEPT ![p] = NoCall]
                /\ IF InvalidAmount(r.amount)
                   THEN /\ pc' = [pc EXCEPT ![p] = "done"]
                        /\ returned' = Append(returned, failed(ErrInvalidAmount))
                   ELSE IF r.kind = Transfer /\ r.from = r.to
                   THEN /\ pc' = [pc EXCEPT ![p] = "done"]
                        /\ returned' = Append(returned, failed(ErrSameWallet))
                   ELSE /\ pc' = [pc EXCEPT ![p] = "gb"]
                        /\ returned' = Append(returned, NoRet)
           ELSE /\ pc' = [pc EXCEPT ![p] = "wallet"]
                /\ returned' = Append(returned, NoRet)
                /\ call' = [call EXCEPT ![p] =
                     IF r.kind = UpdateBalanceRPC
                     THEN [NoCall EXCEPT !.stage = "lock", !.wallet = r.to, !.amount = r.amount,
                                         !.ref = r.key]
                     ELSE [NoCall EXCEPT !.stage = "block", !.wallet = r.to]]
    /\ UNCHANGED <<restVars, walletVars, storeVars, published>>

\* ---- GetBalance: client -> WalletHandler.GetWallet -> walletService.GetWallet
\* The wallet the GetBalance call in progress is about.
GbWallet(p) == IF pc[p] = "gb2" THEN req[p].to ELSE FirstWallet(req[p])

\* The handler goes on after GetBalance returned (balance, failed).
AfterGetBalance(p, failed, cause, balance) ==
    IF failed
    THEN Return(p, ErrWalletNotFound, cause)
    ELSE IF pc[p] = "gb" /\ req[p].kind \in {Withdraw, Transfer}
            /\ InsufficientBalance(balance, req[p].amount)
    THEN Return(p, ErrInsufficientFunds, "precheck")
    ELSE /\ pc' = [pc EXCEPT ![p] = IF pc[p] = "gb" /\ req[p].kind = Transfer
                                    THEN "gb2" ELSE "begin"]
         /\ returned' = returned

\* getWalletFromCache finds the entry: the cached wallet is the answer.
GetWalletFromCache(p) ==
    /\ pc[p] \in {"gb", "gb2"}
    /\ call[p].stage = "none"
    /\ GbWallet(p) \in Wallets
    /\ cache[GbWallet(p)].present
    /\ \E delivered \in BOOLEAN :
         AfterGetBalance(p, ~delivered, RPCErr, cache[GbWallet(p)].balance)
    /\ UNCHANGED <<restVars, walletVars, storeVars, published, nextId, req, tx, dbTx, call, rid, histVars>>

\* Cache miss (no entry, or Redis failed): walletRepo.GetByID reads the row.
GetWalletFromDB(p) ==
    /\ pc[p] \in {"gb", "gb2"}
    /\ call[p].stage = "none"
    /\ IF GbWallet(p) \in Wallets
       THEN /\ call' = [call EXCEPT ![p] = [NoCall EXCEPT !.stage = "gbset",
                           !.wallet = GbWallet(p),
                           !.row = [present |-> TRUE, balance |-> Balance(GbWallet(p)),
                                    is_blocked |-> wallets[GbWallet(p)].is_blocked]]]
            /\ UNCHANGED <<pc, returned>>
       ELSE /\ AfterGetBalance(p, TRUE, RepoErrWalletNotFound, 0)
            /\ call' = call
    /\ UNCHANGED <<restVars, walletVars, storeVars, published, nextId, req, tx, dbTx, rid, histVars>>

\* cacheWallet of the row just read (a failure is logged), then the answer.
GetWalletCacheSet(p) ==
    /\ pc[p] \in {"gb", "gb2"}
    /\ call[p].stage = "gbset"
    /\ \E cached \in BOOLEAN :
         cache' = IF cached THEN [cache EXCEPT ![call[p].wallet] = call[p].row] ELSE cache
    /\ \E delivered \in BOOLEAN :
         AfterGetBalance(p, ~delivered, RPCErr, call[p].row.balance)
    /\ call' = [call EXCEPT ![p] = NoCall]
    /\ UNCHANGED <<restVars, wallets, rowLock, storeVars, published, nextId, req, tx, dbTx, rid, histVars>>

\* ---- the local database transaction of the transaction service
\* repo.BeginTx, then model.NewTransaction.
BeginTx(p) ==
    /\ pc[p] = "begin"
    /\ \E ok \in BOOLEAN :
         IF ok
         THEN /\ dbTx' = [dbTx EXCEPT ![p] = [NoDbTx EXCEPT !.open = TRUE]]
              /\ tx' = [tx EXCEPT ![p] = NewTransaction(rid[p], req[p])]
              /\ pc' = [pc EXCEPT ![p] = "create"]
              /\ returned' = returned
         ELSE /\ Return(p, ErrBeginTx, "db")
              /\ UNCHANGED <<dbTx, tx>>
    /\ UNCHANGED <<restVars, walletVars, storeVars, published, nextId, req, call, rid, histVars>>

\* txRepo.CreateTransaction: INSERT INTO transactions; on error RollbackTx.
CreateTransaction(p) ==
    /\ pc[p] = "create"
    /\ \E ok \in BOOLEAN :
         IF ok
         THEN /\ dbTx' = [dbTx EXCEPT ![p].row = tx[p]]
              /\ pc' = [pc EXCEPT ![p] = "event"]
              /\ returned' = returned
         ELSE /\ dbTx' = [dbTx EXCEPT ![p] = NoDbTx]
              /\ Return(p, ErrCreate, "db")
    /\ UNCHANGED <<restVars, walletVars, storeVars, published, nextId, req, tx, call, rid, histVars>>

\* txRepo.AddTransactionEvent(EventCreated); on error RollbackTx; else the first leg.
AddCreatedEvent(p) ==
    /\ pc[p] = "event"
    /\ \E ok \in BOOLEAN :
         IF ok
         THEN /\ dbTx' = [dbTx EXCEPT ![p].evs = Append(@, EventCreated)]
              /\ pc' = [pc EXCEPT ![p] = "leg1"]
              /\ call' = [call EXCEPT ![p] = StartCall(Legs(req[p])[1], req[p].amount)]
              /\ returned' = returned
         ELSE /\ dbTx' = [dbTx EXCEPT ![p] = NoDbTx]
              /\ Return(p, ErrAddEvent, "db")
              /\ call' = call
    /\ UNCHANGED <<restVars, walletVars, storeVars, published, nextId, req, tx, rid, histVars>>

\* SELECT balance without FOR UPDATE: the read does not wait for the row lock.
LedgerSelectForUpdate_NoLock(p) ==
    /\ call[p].stage = "lock"
    /\ \/ /\ call' = [call EXCEPT ![p].stage = "ret", ![p].res = RepoErrDB]
          /\ UNCHANGED rowLock
       \/ /\ call[p].wallet \notin Wallets
          /\ call' = [call EXCEPT ![p].stage = "ret", ![p].res = RepoErrWalletNotFound]
          /\ UNCHANGED rowLock
       \/ /\ call[p].wallet \in Wallets
          /\ rowLock' = [rowLock EXCEPT ![call[p].wallet] = p]
          /\ call' = [call EXCEPT ![p].stage = "apply", ![p].cur = Balance(call[p].wallet)]
    /\ UNCHANGED <<restVars, wallets, cache, storeVars, published, nextId, pc, req, tx, dbTx, rid, returned, histVars>>

\* ---- the ledger: WalletHandler.UpdateBalance -> walletService -> walletRepository
\* walletRepository.UpdateBalance, first half: BeginTx and SELECT balance ... FOR UPDATE,
\* which waits while another transaction holds the row lock.
LedgerSelectForUpdate(p) ==
    /\ call[p].stage = "lock"
    /\ \/ /\ call' = [call EXCEPT ![p].stage = "ret", ![p].res = RepoErrDB]
          /\ UNCHANGED rowLock
       \/ /\ call[p].wallet \notin Wallets
          /\ call' = [call EXCEPT ![p].stage = "ret", ![p].res = RepoErrWalletNotFound]
          /\ UNCHANGED rowLock
       \/ /\ call[p].wallet \in Wallets
          /\ rowLock[call[p].wallet] = Unlocked
          /\ rowLock' = [rowLock EXCEPT ![call[p].wallet] = p]
          /\ call' = [call EXCEPT ![p].stage = "apply", ![p].cur = Balance(call[p].wallet)]
    /\ UNCHANGED <<restVars, wallets, cache, storeVars, published, nextId, pc, req, tx, dbTx, rid, returned, histVars>>

\* walletRepository.UpdateBalance, second half: the check, UPDATE ... RETURNING and
\* Commit.  Commit releases the row lock, and so does the deferred Rollback, which runs
\* "if err != nil": a failed UPDATE or Commit has set err, but the return of
\* ErrInsufficientFunds leaves err nil (Scan succeeded), so on that path the
\* transaction stays open and keeps the lock.
LedgerUpdate(p) ==
    /\ call[p].stage = "apply"
    /\ LET w == call[p].wallet
           newBalance == NewBalance(call[p].cur, call[p].amount)
       IN  /\ IF NegativeBalance(newBalance)
              THEN /\ call' = [call EXCEPT ![p].stage = "ret", ![p].checked = TRUE,
                                               ![p].res = RepoErrInsufficientFunds]
                   /\ UNCHANGED <<rowLock, wallets, applied, disturbed>>
              ELSE \E ok \in BOOLEAN :
                     /\ rowLock' = [rowLock EXCEPT ![w] = Unlocked]
                     /\ IF ok /\ BalanceCheck(newBalance)
                        THEN /\ wallets' = [wallets EXCEPT ![w].balance = newBalance]
                             /\ call' = [call EXCEPT ![p].stage = "cache", ![p].res = RepoOK,
                                           ![p].checked = TRUE,
                                           ![p].row = [present |-> TRUE, balance |-> newBalance,
                                                       is_blocked |-> wallets[w].is_blocked]]
                             /\ applied' = [applied EXCEPT ![rid[p]] =
                                              Append(@, [wallet |-> w, delta |-> newBalance - Balance(w)])]
                             /\ disturbed' = [q \in Procs |->
                                   disturbed[q] \/ (q # p /\ pc[q] # "idle" /\ w \in ReqWallets(req[q]))]
                        ELSE /\ call' = [call EXCEPT ![p].stage = "ret", ![p].checked = TRUE,
                                                         ![p].res = RepoErrDB]
                             /\ UNCHANGED <<wallets, applied, disturbed>>
    /\ UNCHANGED <<restVars, cache, storeVars, published, nextId, pc, req, tx, dbTx, rid, returned,
                   before, issued, overlapped>>

\* database/sql: the transaction UpdateBalance began with the context of its request and
\* left open is rolled back once that context is done, which is after the handler of
\* the call returned; only then is its row lock released.
LedgerContextDone(p) ==
    /\ \E w \in Wallets :
         /\ rowLock[w] = p
         /\ ~(call[p].stage = "apply" /\ call[p].wallet = w)
         /\ rowLock' = [rowLock EXCEPT ![w] = Unlocked]
    /\ UNCHANGED <<restVars, wallets, cache, storeVars, published, nextId, pc, req, tx, dbTx,
                   call, rid, returned, histVars>>

\* UPDATE wallets SET is_blocked = true, block_reason = $1, and the balance reset as well.
Block_ZeroBalance(row, reason) ==
    [row EXCEPT !.is_blocked = TRUE, !.block_reason = reason, !.balance = 0]

\* Block: UPDATE wallets SET is_blocked = true, block_reason = $1 (updated_at aside).
Block(row, reason) == [row EXCEPT !.is_blocked = TRUE, !.block_reason = reason]

\* Unblock: UPDATE wallets SET is_blocked = false, block_reason = NULL (updated_at aside).
Unblock(row) == [row EXCEPT !.is_blocked = FALSE, !.block_reason = NullReason]

\* walletRepository.Block / Unblock: one UPDATE ... RETURNING, which waits for the row lock.
LedgerBlock(p) ==
    /\ call[p].stage = "block"
    /\ LET w == call[p].wallet
       IN  \/ /\ w \notin Wallets
              /\ call' = [call EXCEPT ![p].stage = "ret", ![p].res = RepoErrWalletNotFound]
              /\ UNCHANGED wallets
           \/ /\ w \in Wallets
              /\ call' = [call EXCEPT ![p].stage = "ret", ![p].res = RepoErrDB]
              /\ UNCHANGED wallets
           \/ /\ w \in Wallets
              /\ rowLock[w] = Unlocked
              /\ \E reason \in Reasons :
                   LET row == IF req[p].kind = BlockWallet
                              THEN Block(wallets[w], reason) ELSE Unblock(wallets[w])
                   IN  /\ wallets' = [wallets EXCEPT ![w] = row]
                       /\ call' = [call EXCEPT ![p].stage = "cache", ![p].res = RepoOK,
                                     ![p].row = [present |-> TRUE, balance |-> row.balance,
                                                 is_blocked |-> row.is_blocked]]
    /\ UNCHANGED <<restVars, rowLock, cache, storeVars, published, nextId, pc, req, tx, dbTx, rid, returned, histVars>>

\* walletService.UpdateBalance / BlockWallet / UnblockWallet: cacheWallet of the row the
\* repository returned; a failure is logged and the call still succeeds.
LedgerCacheWallet(p) ==
    /\ call[p].stage = "cache"
    /\ \E cached \in BOOLEAN :
         cache' = IF cached THEN [cache EXCEPT ![call[p].wallet] = call[p].row] ELSE cache
    /\ call' = [call EXCEPT ![p].stage = "ret"]
    /\ UNCHANGED <<restVars, wallets, rowLock, storeVars, published, nextId, pc, req, tx, dbTx, rid, returned, histVars>>

\* A request sent to the wallet service itself returns to its caller.
WalletReturn(p) ==
    /\ pc[p] = "wallet"
    /\ call[p].stage = "ret"
    /\ \E delivered \in BOOLEAN :
         Return(p, IF ~delivered THEN RPCErr
                   ELSE IF call[p].res = RepoOK THEN NoErr ELSE call[p].res,
                IF delivered THEN call[p].res ELSE RPCErr)
    /\ call' = [call EXCEPT ![p] = NoCall]
    /\ UNCHANGED <<restVars, walletVars, storeVars, published, nextId, req, tx, dbTx, rid, histVars>>

\* A failed leg call issued again by the handler.
LegReturn_Retry(p) ==
    /\ pc[p] \in {"leg1", "leg2"}
    /\ call[p].stage = "ret"
    /\ LET leg == IF pc[p] = "leg1" THEN 1 ELSE 2
       IN  \E delivered \in BOOLEAN :
             IF delivered /\ call[p].res = RepoOK
             THEN /\ IF leg < Len(Legs(req[p]))
                     THEN /\ pc' = [pc EXCEPT ![p] = "leg2"]
                          /\ call' = [call EXCEPT ![p] =
                                        StartCall(Legs(req[p])[leg + 1], req[p].amount)]
                     ELSE /\ pc' = [pc EXCEPT ![p] = "status"]
                          /\ call' = [call EXCEPT ![p] = NoCall]
                  /\ UNCHANGED <<returned, dbTx>>
             ELSE /\ call' = [call EXCEPT ![p] = StartCall(Legs(req[p])[leg], req[p].amount)]
                  /\ UNCHANGED <<pc, returned, dbTx>>
    /\ UNCHANGED <<restVars, walletVars, storeVars, published, nextId, req, tx, rid, histVars>>

\* ---- the handler after a leg
\* walletSvc.UpdateBalance returned: on error RollbackTx and return the wrapped error;
\* else the next leg, or UpdateTransactionStatus.
LegReturn(p) ==
    /\ pc[p] \in {"leg1", "leg2"}
    /\ call[p].stage = "ret"
    /\ LET leg == IF pc[p] = "leg1" THEN 1 ELSE 2
       IN  \E delivered \in BOOLEAN :
             IF delivered /\ call[p].res = RepoOK
             THEN /\ IF leg < Len(Legs(req[p]))
                     THEN /\ pc' = [pc EXCEPT ![p] = "leg2"]
                          /\ call' = [call EXCEPT ![p] =
                                        StartCall(Legs(req[p])[leg + 1], req[p].amount)]
                     ELSE /\ pc' = [pc EXCEPT ![p] = "status"]
                          /\ call' = [call EXCEPT ![p] = NoCall]
                  /\ UNCHANGED <<returned, dbTx>>
             ELSE /\ dbTx' = [dbTx EXCEPT ![p] = NoDbTx]
                  /\ call' = [call EXCEPT ![p] = NoCall]
                  /\ Return(p, LegError(req[p], leg),
                            IF delivered THEN call[p].res ELSE RPCErr)
    /\ UNCHANGED <<restVars, walletVars, storeVars, published, nextId, req, tx, rid, histVars>>

\* txRepo.UpdateTransactionStatus(tx.ID, Completed): no row affected is an error;
\* on error RollbackTx.
UpdateTransactionStatus(p) ==
    /\ pc[p] = "status"
    /\ \E ok \in BOOLEAN :
         IF ok /\ dbTx[p].row.id = tx[p].id
         THEN /\ dbTx' = [dbTx EXCEPT ![p].row.status = FinalStatus]
              /\ pc' = [pc EXCEPT ![p] = "cevent"]
              /\ returned' = returned
         ELSE /\ dbTx' = [dbTx EXCEPT ![p] = NoDbTx]
              /\ Return(p, ErrUpdateStatus, "db")
    /\ UNCHANGED <<restVars, walletVars, storeVars, published, nextId, req, tx, call, rid, histVars>>

\* The failed INSERT taken to leave the database transaction usable.
AddCompletedEvent_Unaborted(p) ==
    /\ pc[p] = "cevent"
    /\ \E ok \in BOOLEAN :
         dbTx' = IF ok THEN [dbTx EXCEPT ![p].evs = Append(@, EventCompleted)] ELSE dbTx
    /\ pc' = [pc EXCEPT ![p] = "commit"]
    /\ UNCHANGED <<restVars, walletVars, storeVars, published, nextId, req, tx, call, rid, returned, histVars>>

\* txRepo.AddTransactionEvent(EventCompleted): an error is logged and the handler goes on
\* ("Continue despite this error") to CommitTx; the statement that failed has left the
\* database transaction aborted.
AddCompletedEvent(p) ==
    /\ pc[p] = "cevent"
    /\ \E ok \in BOOLEAN :
         dbTx' = IF ok THEN [dbTx EXCEPT ![p].evs = Append(@, EventCompleted)]
                 ELSE [dbTx EXCEPT ![p].aborted = TRUE]
    /\ pc' = [pc EXCEPT ![p] = "commit"]
    /\ UNCHANGED <<restVars, walletVars, storeVars, published, nextId, req, tx, call, rid, returned, histVars>>

\* A commit whose failure still starts the notification goroutine.
CommitTx_NotifyAnyway(p) ==
    /\ pc[p] = "commit"
    /\ \E ok \in BOOLEAN :
         IF ok /\ ~dbTx[p].aborted
         THEN /\ transactions' = transactions @@ (tx[p].id :> dbTx[p].row)
              /\ events' = events \o [i \in 1..Len(dbTx[p].evs) |->
                                        [transaction_id |-> tx[p].id, event_type |-> dbTx[p].evs[i]]]
              /\ tx' = [tx EXCEPT ![p].status = Completed]
              /\ returned' = [returned EXCEPT ![rid[p]] =
                                [done |-> TRUE, err |-> NoErr, cause |-> "none",
                                 transaction_id |-> tx[p].id]]
         ELSE /\ returned' = [returned EXCEPT ![rid[p]] =
                                [done |-> TRUE, err |-> ErrCommit, cause |-> "db",
                                 transaction_id |-> 0]]
              /\ UNCHANGED <<storeVars, tx>>
    /\ pc' = [pc EXCEPT ![p] = "notify"]
    /\ dbTx' = [dbTx EXCEPT ![p] = NoDbTx]
    /\ UNCHANGED <<restVars, walletVars, published, nextId, req, call, rid, histVars>>

\* txRepo.CommitTx: the row and its events become visible; "tx.Status = Completed",
\* the notification goroutine starts and the handler returns tx.  On error RollbackTx.
\* The commit of an aborted database transaction is an error.
CommitTx(p) ==
    /\ pc[p] = "commit"
    /\ \E ok \in BOOLEAN :
         IF ok /\ ~dbTx[p].aborted
         THEN /\ transactions' = transactions @@ (tx[p].id :> dbTx[p].row)
              /\ events' = events \o [i \in 1..Len(dbTx[p].evs) |->
                                        [transaction_id |-> tx[p].id, event_type |-> dbTx[p].evs[i]]]
              /\ tx' = [tx EXCEPT ![p].status = Completed]
              /\ pc' = [pc EXCEPT ![p] = "notify"]
              /\ returned' = [returned EXCEPT ![rid[p]] =
                                [done |-> TRUE, err |-> NoErr, cause |-> "none",
                                 transaction_id |-> tx[p].id]]
         ELSE /\ Return(p, ErrCommit, "db")
              /\ UNCHANGED <<storeVars, tx>>
    /\ dbTx' = [dbTx EXCEPT ![p] = NoDbTx]
    /\ UNCHANGED <<restVars, walletVars, published, nextId, req, call, rid, histVars>>

\* A dispatch whose failure is put into the result of the request.
Notify_Surfaced(p) ==
    /\ pc[p] \in {"notify", "notify2"}
    /\ LET n == IF pc[p] = "notify" THEN 1 ELSE 2
       IN  /\ \E ok \in BOOLEAN :
                /\ published' = IF ok
                                THEN published \cup {[type |-> Notifications(req[p])[n].type,
                                                      wallet |-> Notifications(req[p])[n].wallet,
                                                      transaction_id |-> tx[p].id]}
                                ELSE published
                /\ returned' = IF ok THEN returned
                               ELSE [returned EXCEPT ![rid[p]].err = ErrTransactionFailed]
           /\ pc' = [pc EXCEPT ![p] = IF n < Len(Notifications(req[p])) THEN "notify2" ELSE "done"]
    /\ UNCHANGED <<restVars, walletVars, storeVars, nextId, req, tx, dbTx, call, rid, histVars>>

\* A dispatch whose failure marks the committed row failed.
Notify_MarksFailed(p) ==
    /\ pc[p] \in {"notify", "notify2"}
    /\ LET n == IF pc[p] = "notify" THEN 1 ELSE 2
       IN  /\ \E ok \in BOOLEAN :
                /\ published' = IF ok
                                THEN published \cup {[type |-> Notifications(req[p])[n].type,
                                                      wallet |-> Notifications(req[p])[n].wallet,
                                                      transaction_id |-> tx[p].id]}
                                ELSE published
                /\ transactions' = IF ok THEN transactions
                                   ELSE [transactions EXCEPT ![tx[p].id].status = Failed]
           /\ pc' = [pc EXCEPT ![p] = IF n < Len(Notifications(req[p])) THEN "notify2" ELSE "done"]
    /\ UNCHANGED <<restVars, walletVars, events, nextId, req, tx, dbTx, call, rid, returned, histVars>>

\* The goroutine: notifySvc.PublishTransactionEvent for each notification of the
\* request; an error is logged.
Notify(p) ==
    /\ pc[p] \in {"notify", "notify2"}
    /\ LET n == IF pc[p] = "notify" THEN 1 ELSE 2
       IN  /\ \E ok \in BOOLEAN :
                published' = IF ok
                             THEN published \cup {[type |-> Notifications(req[p])[n].type,
                                                   wallet |-> Notifications(req[p])[n].wallet,
                                                   transaction_id |-> tx[p].id]}
                             ELSE published
           /\ pc' = [pc EXCEPT ![p] = IF n < Len(Notifications(req[p])) THEN "notify2" ELSE "done"]
    /\ UNCHANGED <<restVars, walletVars, storeVars, nextId, req, tx, dbTx, call, rid, returned, histVars>>

\* ------------------------------------------------------------ specification
Next ==
    \E p \in Procs :
        \/ \E r \in Requests : Issue(p, r)
        \/ GetWalletFromCache(p)
        \/ GetWalletFromDB(p)
        \/ GetWalletCacheSet(p)
        \/ BeginTx(p)
        \/ CreateTransaction(p)
        \/ AddCreatedEvent(p)
        \/ LedgerSelectForUpdate(p)
        \/ LedgerUpdate(p)
        \/ LedgerContextDone(p)
        \/ LedgerBlock(p)
        \/ LedgerCacheWallet(p)
        \/ WalletReturn(p)
        \/ LegReturn(p)
        \/ UpdateTransactionStatus(p)
        \/ AddCompletedEvent(p)
        \/ CommitTx(p)
        \/ Notify(p)

Spec == Init /\ [][Next]_vars

\* ---- GRPCHandler.GetTransactionHistory -> GetTransactionsForWallet
ErrHistory == "failed to get transaction history"

\* A query reads the table and writes nothing, so one query a table shows every
\* response to it.
GetTransactionHistory(f) ==
    LET page == EffectivePage(f.page)
        limit == EffectiveLimit(f.limit)
        matching == {history.rows[i] : i \in {j \in DOMAIN history.rows :
                                                Matches(history.rows[j], f.wallet_id)}}
        totalCount == Cardinality(matching)
    IN  /\ ~history.result.answered
        /\ \/ \E ordered \in OrderBy(matching, SortField(f.sort_by),
                                     SortDirection(f.ascending)) :
                history' = [history EXCEPT
                    !.filter = f,
                    !.result = [answered |-> TRUE, err |-> NoErr,
                                transactions |-> LimitOffset(ordered, limit, Offset(page, limit)),
                                total_count |-> totalCount,
                                page |-> page,
                                total_pages |-> TotalPages(totalCount, limit)]]
           \/ history' = [history EXCEPT !.filter = f,
                             !.result = [NoResult EXCEPT !.answered = TRUE, !.err = ErrHistory]]
        /\ UNCHANGED <<sagaVars, eventLog, userVars, authVars>>

NextHistory == \E f \in Filters : GetTransactionHistory(f)

SpecHistory == InitHistory /\ [][NextHistory]_vars

\* ---- the event log: AddTransactionEvent and GetTransactionEvents
\* The events a caller hands to AddTransactionEvent: NewTransactionEvent stamps them
\* with time.Now(), the wall clock, which two events can read equal or out of order.
NewEvents ==
    [transaction_id : 1..MaxRequests, event_type : {EventCreated, EventCompleted},
     created_at : 1..MaxTime]

\* An insert that replaces the event of the same transaction and type.
AddTransactionEvent_Upsert(e) ==
    /\ Len(eventLog.rows) < MaxEvents
    /\ LET same == {i \in DOMAIN eventLog.rows :
                       /\ eventLog.rows[i].transaction_id = e.transaction_id
                       /\ eventLog.rows[i].event_type = e.event_type}
           row == [id |-> Len(eventLog.rows) + 1, transaction_id |-> e.transaction_id,
                   event_type |-> e.event_type, created_at |-> e.created_at]
       IN  eventLog' = [eventLog EXCEPT !.rows =
                          IF same = {} THEN Append(@, row)
                          ELSE [i \in DOMAIN @ |-> IF i \in same THEN row ELSE @[i]]]
    /\ UNCHANGED <<sagaVars, history, userVars, authVars>>

\* AddTransactionEvent: INSERT INTO transaction_events, the id a fresh uuid.
AddTransactionEvent(e) ==
    /\ Len(eventLog.rows) < MaxEvents
    /\ eventLog' = [eventLog EXCEPT !.rows =
                      Append(@, [id |-> Len(eventLog.rows) + 1,
                                 transaction_id |-> e.transaction_id,
                                 event_type |-> e.event_type,
                                 created_at |-> e.created_at])]
    /\ UNCHANGED <<sagaVars, history, userVars, authVars>>

\* The ways to put a set of rows in a sequence: ORDER BY leaves the order of rows
\* with equal keys open.
Arrangements(rows) ==
    {q \in [1..Cardinality(rows) -> rows] : \A i, j \in DOMAIN q : i # j => q[i] # q[j]}

\* ORDER BY created_at ASC.
OrderByCreatedAt(rows) ==
    {q \in Arrangements(rows) :
        \A i, j \in DOMAIN q : i < j => q[i].created_at <= q[j].created_at}

\* GetTransactionEvents: SELECT ... WHERE transaction_id = $1 ORDER BY created_at ASC.
GetTransactionEvents(transactionID) ==
    /\ LET found == {eventLog.rows[i] : i \in {j \in DOMAIN eventLog.rows :
                        eventLog.rows[j].transaction_id = transactionID}}
       IN  \E q \in OrderByCreatedAt(found) :
              eventLog' = [eventLog EXCEPT !.queried = transactionID, !.result = q]
    /\ UNCHANGED <<sagaVars, history, userVars, authVars>>

NextEvents ==
    \/ \E e \in NewEvents : AddTransactionEvent(e)
    \/ \E id \in 1..MaxRequests : GetTransactionEvents(id)

SpecEvents == Init /\ [][NextEvents]_vars

\* ---- the user repository: userRepository with its Redis cache (cache-aside)
UserErrNotFound == "user not found"
UserErrExists == "user already exists"
UserErrDB == "user repository: database error"

\* Everything but the variables of the user repository.
notUserVars == <<sagaVars, history, eventLog, authVars>>

\* Repository calls issued so far.
UserCalls == Len(userLog) + Cardinality({p \in UserProcs : userPc[p] # "idle"})

\* The ids of the rows with this username.
UsersNamed(username) ==
    {id \in UserIds : users[id] # NoUser /\ users[id].username = username}

\* getUserByField: SELECT ... FROM users WHERE id = $1, or WHERE username = $1; the
\* row a cache key stands for, NoUser for sql.ErrNoRows.
getUserByField(key) ==
    IF key[1] = "user" THEN users[key[2]]
    ELSE IF UsersNamed(key[2]) = {} THEN NoUser
    ELSE users[CHOOSE id \in UsersNamed(key[2]) : TRUE]

\* A repository call returns to its caller.
UserReturn(p, op, key, err, user) ==
    /\ userPc' = [userPc EXCEPT ![p] = "idle"]
    /\ userOp' = [userOp EXCEPT ![p] = NoUserOp]
    /\ userLog' = Append(userLog, [op |-> op, key |-> key, err |-> err, user |-> user])

\* userRepository.Create: SELECT EXISTS(username or email taken), then INSERT; the id
\* is the uuid of the caller.
UserCreate(p) ==
    /\ userPc[p] = "idle"
    /\ UserCalls < MaxUserCalls
    /\ nextUser < MaxUsers
    /\ \E username \in Usernames, email \in Emails, ok \in BOOLEAN :
         LET id == nextUser + 1
             exists == \E i \in UserIds :
                          /\ users[i] # NoUser
                          /\ (users[i].username = username \/ users[i].email = email)
             user == [id |-> id, username |-> username, email |-> email]
         IN  /\ nextUser' = id
             /\ IF ~ok
                THEN users' = users /\ UserReturn(p, "Create", UserIDKey(id), UserErrDB, NoUser)
                ELSE IF exists
                THEN users' = users /\ UserReturn(p, "Create", UserIDKey(id), UserErrExists, NoUser)
                ELSE /\ users' = [users EXCEPT ![id] = user]
                     /\ UserReturn(p, "Create", UserIDKey(id), NoErr, user)
    /\ UNCHANGED <<notUserVars, userCache, userCacheErr>>

\* GetByID / GetByUsername, the cache first: cache.GetUser answers, or (no entry, or
\* Redis failed) the call goes on to the database.
GetUserFromCache(p) ==
    /\ userPc[p] = "idle"
    /\ UserCalls < MaxUserCalls
    /\ \E key \in UserKeys, hit \in BOOLEAN :
         IF hit /\ userCache[key] # NoUser
         THEN UserReturn(p, "Get", key, NoErr, userCache[key])
         ELSE /\ userPc' = [userPc EXCEPT ![p] = "get_db"]
              /\ userOp' = [userOp EXCEPT ![p] = [op |-> "Get", key |-> key, user |-> NoUser]]
              /\ userLog' = userLog
    /\ UNCHANGED <<notUserVars, userStoreVars, userCacheErr>>

\* GetByID / GetByUsername after the miss: getUserByField.
GetUserFromDB(p) ==
    /\ userPc[p] = "get_db"
    /\ \E ok \in BOOLEAN :
         LET user == getUserByField(userOp[p].key)
         IN  IF ~ok THEN UserReturn(p, "Get", userOp[p].key, UserErrDB, NoUser)
             ELSE IF user = NoUser
             THEN UserReturn(p, "Get", userOp[p].key, UserErrNotFound, NoUser)
             ELSE /\ userPc' = [userPc EXCEPT ![p] = "get_set"]
                  /\ userOp' = [userOp EXCEPT ![p].user = user]
                  /\ userLog' = userLog
    /\ UNCHANGED <<notUserVars, userStoreVars, userCacheErr>>

\* GetByID / GetByUsername, last step: cache.SetUser of the row read (its error is
\* dropped), and the row is returned.
SetUser(p) ==
    /\ userPc[p] = "get_set"
    /\ \E ok \in BOOLEAN :
         /\ userCache' = IF ok THEN [userCache EXCEPT ![userOp[p].key] = userOp[p].user]
                         ELSE userCache
         /\ userCacheErr' = (userCacheErr \/ ~ok)
    /\ UserReturn(p, "Get", userOp[p].key, NoErr, userOp[p].user)
    /\ UNCHANGED <<notUserVars, users, nextUser>>

\* The caller of Update holds the user it read with GetByID (from the cache or from
\* the table) and has set the new email on it.
UpdateUser(p) ==
    /\ userPc[p] = "idle"
    /\ UserCalls < MaxUserCalls
    /\ \E id \in UserIds, email \in Emails :
         \E user \in {users[id], userCache[UserIDKey(id)]} \ {NoUser} :
            /\ userPc' = [userPc EXCEPT ![p] = "update"]
            /\ userOp' = [userOp EXCEPT ![p] =
                            [op |-> "Update", key |-> UserIDKey(user.id),
                             user |-> [user EXCEPT !.email = email]]]
    /\ UNCHANGED <<notUserVars, userStoreVars, userLog, userCacheErr>>

\* userRepository.Update: UPDATE users SET email ... WHERE id = $5 RETURNING id.
UserUpdate(p) ==
    /\ userPc[p] = "update"
    /\ \E ok \in BOOLEAN :
         LET user == userOp[p].user
         IN  IF ~ok THEN users' = users /\ UserReturn(p, "Update", userOp[p].key, UserErrDB, NoUser)
             ELSE IF users[user.id] = NoUser
             THEN users' = users /\ UserReturn(p, "Update", userOp[p].key, UserErrNotFound, NoUser)
             ELSE /\ users' = [users EXCEPT ![user.id].email = user.email]
                  /\ userPc' = [userPc EXCEPT ![p] = "invalidate"]
                  /\ UNCHANGED <<userOp, userLog>>
    /\ UNCHANGED <<notUserVars, userCache, nextUser, userCacheErr>>

\* userRepository.Delete: DELETE FROM users WHERE id = $1 RETURNING username.
UserDelete(p) ==
    /\ userPc[p] = "idle"
    /\ UserCalls < MaxUserCalls
    /\ \E id \in UserIds, ok \in BOOLEAN :
         IF ~ok THEN users' = users /\ UserReturn(p, "Delete", UserIDKey(id), UserErrDB, NoUser)
         ELSE IF users[id] = NoUser
         THEN users' = users /\ UserReturn(p, "Delete", UserIDKey(id), UserErrNotFound, NoUser)
         ELSE /\ users' = [users EXCEPT ![id] = NoUser]
              /\ userPc' = [userPc EXCEPT ![p] = "invalidate"]
              /\ userOp' = [userOp EXCEPT ![p] =
                              [op |-> "Delete", key |-> UserIDKey(id),
                               user |-> [id |-> id, username |-> users[id].username,
                                         email |-> ""]]]
              /\ userLog' = userLog
    /\ UNCHANGED <<notUserVars, userCache, nextUser, userCacheErr>>

\* invalidateUserCache, first key: DeleteUser(UserIDKey(id)); on an error it returns
\* at once, and Update and Delete drop the error and return nil.
InvalidateUserID(p) ==
    /\ userPc[p] = "invalidate"
    /\ \E ok \in BOOLEAN :
         IF ok
         THEN /\ userCache' = [userCache EXCEPT ![UserIDKey(userOp[p].user.id)] = NoUser]
              /\ userCacheErr' = userCacheErr
              /\ IF userOp[p].user.username # ""
                 THEN /\ userPc' = [userPc EXCEPT ![p] = "invalidate2"]
                      /\ UNCHANGED <<userOp, userLog>>
                 ELSE UserReturn(p, userOp[p].op, userOp[p].key, NoErr, userOp[p].user)
         ELSE /\ userCache' = userCache
              /\ userCacheErr' = TRUE
              /\ UserReturn(p, userOp[p].op, userOp[p].key, NoErr, userOp[p].user)
    /\ UNCHANGED <<notUserVars, users, nextUser>>

\* invalidateUserCache, second key: DeleteUser(UsernameKey(username)).
InvalidateUsername(p) ==
    /\ userPc[p] = "invalidate2"
    /\ \E ok \in BOOLEAN :
         /\ userCache' = IF ok THEN [userCache EXCEPT ![UsernameKey(userOp[p].user.username)] = NoUser]
                         ELSE userCache
         /\ userCacheErr' = (userCacheErr \/ ~ok)
    /\ UserReturn(p, userOp[p].op, userOp[p].key, NoErr, userOp[p].user)
    /\ UNCHANGED <<notUserVars, users, nextUser>>

\* Redis drops an entry when its userCacheTTL has passed.
UserCacheExpire ==
    /\ \E key \in UserKeys :
         /\ userCache[key] # NoUser
         /\ userCache' = [userCache EXCEPT ![key] = NoUser]
    /\ UNCHANGED <<notUserVars, users, nextUser, userCallVars>>

NextUser ==
    \/ \E p \in UserProcs :
        \/ UserCreate(p)
        \/ GetUserFromCache(p)
        \/ GetUserFromDB(p)
        \/ SetUser(p)
        \/ UpdateUser(p)
        \/ UserUpdate(p)
        \/ UserDelete(p)
        \/ InvalidateUserID(p)
        \/ InvalidateUsername(p)
    \/ UserCacheExpire

SpecUser == Init /\ [][NextUser]_vars

\* ---- the auth service: authService over authRepository (user_auth, Redis) and
\* userRepository, whose calls are single steps here
AuthErrInvalidCredentials == "invalid credentials"
AuthErrUserExists == "user already exists"
AuthErrUserNotFound == "user not found"
AuthErrInvalidToken == "invalid token"
AuthErrPasswordMismatch == "old password does not match"
AuthErrOperationLocked == "operation is locked"
\* Any other error: of the database, of Redis, of the hasher or of the signer.
AuthErrInternal == "auth: internal error"

\* Everything but the variables of the auth service and the stores of the user repository.
notAuthVars == <<sagaVars, history, eventLog, userCallVars>>

\* hasher.Hash and hasher.Check (bcrypt).
Hash(password) == [bcrypt |-> password]
Check(password, hash) == hash = Hash(password)

\* Calls of the auth service issued so far.
AuthCalls == Len(authLog) + Cardinality({p \in AuthProcs : authPc[p] # "idle"})

\* The tokens the service has returned to its callers.
ReturnedTokens ==
    {authLog[i].token : i \in DOMAIN authLog} \ {NoToken}

\* jwtUtil.GenerateRefreshToken: the claims carry a fresh uuid as jti.
NewRefreshToken(userID) == [user |-> userID, type |-> "refresh", jti |-> nextToken + 1]

\* A call of the auth service returns to its caller.
AuthReturn(p, r, err, token) ==
    /\ authPc' = [authPc EXCEPT ![p] = "idle"]
    /\ authReq' = [authReq EXCEPT ![p] = NoAuthReq]
    /\ authLocal' = [authLocal EXCEPT ![p] = NoAuthLocal]
    /\ authLog' = Append(authLog, [op |-> r.op, presented |-> r.token, err |-> err,
                                   token |-> token,
                                   user |-> IF r.user # 0 THEN r.user
                                            ELSE IF r.token # NoToken THEN r.token.user
                                            ELSE authLocal[p].user.id])

\* The call of slot p goes on at position next.
AuthGoto(p, next) ==
    /\ authPc' = [authPc EXCEPT ![p] = next]
    /\ authLog' = authLog

\* userRepo.GetByID / GetByUsername as one step: the cached user, or the row of the
\* table, which is then cached (SetUser may fail).
CachedRead(key, hit, set, user) ==
    IF hit /\ userCache[key] # NoUser
    THEN user = userCache[key] /\ userCache' = userCache
    ELSE /\ user = getUserByField(key)
         /\ userCache' = IF set /\ user # NoUser THEN [userCache EXCEPT ![key] = user]
                         ELSE userCache

\* Register, first statement: uuid.New() and userRepo.Create.
Register(p) ==
    /\ authPc[p] = "idle"
    /\ AuthCalls < MaxAuthCalls
    /\ nextUser < MaxUsers
    /\ \E username \in Usernames, email \in Emails, password \in Passwords, ok \in BOOLEAN :
         LET id == nextUser + 1
             user == [id |-> id, username |-> username, email |-> email]
             r == [NoAuthReq EXCEPT !.op = "Register", !.username = username,
                                    !.email = email, !.password = password]
             exists == \E i \in UserIds :
                          /\ users[i] # NoUser
                          /\ (users[i].username = username \/ users[i].email = email)
         IN  /\ nextUser' = id
             /\ IF ~ok THEN users' = users /\ AuthReturn(p, r, AuthErrInternal, NoToken)
                ELSE IF exists THEN users' = users /\ AuthReturn(p, r, AuthErrUserExists, NoToken)
                ELSE /\ users' = [users EXCEPT ![id] = user]
                     /\ authReq' = [authReq EXCEPT ![p] = r]
                     /\ authLocal' = [authLocal EXCEPT ![p].user = user]
                     /\ AuthGoto(p, "reg_hash")
    /\ UNCHANGED <<notAuthVars, userCache, userAuth, refreshTokens, passwordLock, nextToken>>

\* Register: hasher.Hash(req.Password); on an error the user is to be deleted.
RegisterHash(p) ==
    /\ authPc[p] = "reg_hash"
    /\ \E ok \in BOOLEAN :
         /\ authLocal' = [authLocal EXCEPT ![p].hash = IF ok THEN Hash(authReq[p].password) ELSE NoHash,
                                           ![p].err = IF ok THEN NoErr ELSE AuthErrInternal]
         /\ AuthGoto(p, IF ok THEN "reg_store" ELSE "reg_rollback")
    /\ UNCHANGED <<notAuthVars, userStoreVars, userAuth, refreshTokens, passwordLock, nextToken, authReq>>

\* Register: authRepo.StoreUserAuth (INSERT ... ON CONFLICT (id) DO UPDATE), then the
\* user id is returned; on an error the user is to be deleted.
RegisterStore(p) ==
    /\ authPc[p] = "reg_store"
    /\ \E ok \in BOOLEAN :
         IF ok
         THEN /\ userAuth' = [userAuth EXCEPT ![authLocal[p].user.id] = authLocal[p].hash]
              /\ AuthReturn(p, authReq[p], NoErr, NoToken)
         ELSE /\ userAuth' = userAuth
              /\ authLocal' = [authLocal EXCEPT ![p].err = AuthErrInternal]
              /\ authReq' = authReq
              /\ AuthGoto(p, "reg_rollback")
    /\ UNCHANGED <<notAuthVars, userStoreVars, refreshTokens, passwordLock, nextToken>>

\* Register: "_ = s.userRepo.Delete(ctx, userID)" and the first error is returned.
\* Delete removes the row and invalidates the two cache keys, or fails.
RegisterRollback(p) ==
    /\ authPc[p] = "reg_rollback"
    /\ \E ok \in BOOLEAN, inv1 \in BOOLEAN, inv2 \in BOOLEAN :
         LET user == authLocal[p].user
         IN  IF ok /\ users[user.id] # NoUser
             THEN /\ users' = [users EXCEPT ![user.id] = NoUser]
                  /\ userCache' = [k \in UserKeys |->
                        IF inv1 /\ k = UserIDKey(user.id) THEN NoUser
                        ELSE IF inv1 /\ inv2 /\ k = UsernameKey(user.username) THEN NoUser
                        ELSE userCache[k]]
             ELSE UNCHANGED <<users, userCache>>
    /\ AuthReturn(p, authReq[p], authLocal[p].err, NoToken)
    /\ UNCHANGED <<notAuthVars, nextUser, userAuth, refreshTokens, passwordLock, nextToken>>

\* Login, first statement: userRepo.GetByUsername.
Login(p) ==
    /\ authPc[p] = "idle"
    /\ AuthCalls < MaxAuthCalls
    /\ \E username \in Usernames, password \in Passwords :
       \E ok \in BOOLEAN, hit \in BOOLEAN, set \in BOOLEAN, user \in {users[i] : i \in UserIds}
                \cup {userCache[k] : k \in UserKeys} :
         LET r == [NoAuthReq EXCEPT !.op = "Login", !.username = username, !.password = password]
         IN  IF ~ok THEN userCache' = userCache /\ AuthReturn(p, r, AuthErrInternal, NoToken)
             ELSE /\ CachedRead(UsernameKey(username), hit, set, user)
                  /\ IF user = NoUser
                     THEN AuthReturn(p, r, AuthErrInvalidCredentials, NoToken)
                     ELSE /\ authReq' = [authReq EXCEPT ![p] = r]
                          /\ authLocal' = [authLocal EXCEPT ![p].user = user]
                          /\ AuthGoto(p, "login_auth")
    /\ UNCHANGED <<notAuthVars, users, nextUser, userAuth, refreshTokens, passwordLock, nextToken>>

\* Login: authRepo.GetUserAuth, hasher.Check, then the two tokens are signed.
LoginAuth(p) ==
    /\ authPc[p] = "login_auth"
    /\ \E ok \in BOOLEAN :
         LET hash == userAuth[authLocal[p].user.id]
         IN  IF ~ok THEN AuthReturn(p, authReq[p], AuthErrInternal, NoToken)
             ELSE IF hash = NoHash THEN AuthReturn(p, authReq[p], AuthErrUserNotFound, NoToken)
             ELSE IF ~Check(authReq[p].password, hash)
             THEN AuthReturn(p, authReq[p], AuthErrInvalidCredentials, NoToken)
             ELSE /\ AuthGoto(p, "login_store")
                  /\ UNCHANGED <<authReq, authLocal>>
    /\ UNCHANGED <<notAuthVars, userStoreVars, userAuth, refreshTokens, passwordLock, nextToken>>

\* Login: authRepo.StoreRefreshToken of the new refresh token, and the tokens are
\* returned.
LoginStore(p) ==
    /\ authPc[p] = "login_store"
    /\ \E ok \in BOOLEAN :
         LET token == NewRefreshToken(authLocal[p].user.id)
         IN  /\ nextToken' = nextToken + 1
             /\ IF ok
                THEN /\ refreshTokens' = refreshTokens \cup {token}
                     /\ AuthReturn(p, authReq[p], NoErr, token)
                ELSE /\ refreshTokens' = refreshTokens
                     /\ AuthReturn(p, authReq[p], AuthErrInternal, NoToken)
    /\ UNCHANGED <<notAuthVars, userStoreVars, userAuth, passwordLock>>

\* RefreshToken, up to the check in Redis: jwtUtil.ValidateToken, the token type and
\* authRepo.ValidateRefreshToken (GET refresh_token:<user>:<token>).
RefreshToken(p) ==
    /\ authPc[p] = "idle"
    /\ AuthCalls < MaxAuthCalls
    /\ \E token \in ReturnedTokens \cup {[t EXCEPT !.type = "access"] : t \in ReturnedTokens},
          ok \in BOOLEAN :
         LET r == [NoAuthReq EXCEPT !.op = "RefreshToken", !.token = token]
         IN  IF token.type # "refresh" \/ ~ok \/ token \notin refreshTokens
             THEN AuthReturn(p, r, AuthErrInvalidToken, NoToken)
             ELSE /\ authReq' = [authReq EXCEPT ![p] = r]
                  /\ authLocal' = authLocal
                  /\ AuthGoto(p, "refresh_user")
    /\ UNCHANGED <<notAuthVars, userStoreVars, userAuth, refreshTokens, passwordLock, nextToken>>

\* RefreshToken: userRepo.GetByID for the username.
RefreshGetUser(p) ==
    /\ authPc[p] = "refresh_user"
    /\ \E ok \in BOOLEAN, hit \in BOOLEAN, set \in BOOLEAN, user \in {users[i] : i \in UserIds}
                \cup {userCache[k] : k \in UserKeys} :
         IF ~ok THEN userCache' = userCache /\ AuthReturn(p, authReq[p], AuthErrInternal, NoToken)
         ELSE /\ CachedRead(UserIDKey(authReq[p].token.user), hit, set, user)
              /\ IF user = NoUser
                 THEN AuthReturn(p, authReq[p], AuthErrUserNotFound, NoToken)
                 ELSE /\ authLocal' = [authLocal EXCEPT ![p].user = user]
                      /\ authReq' = authReq
                      /\ AuthGoto(p, "refresh_delete")
    /\ UNCHANGED <<notAuthVars, users, nextUser, userAuth, refreshTokens, passwordLock, nextToken>>

\* RefreshToken: authRepo.DeleteRefreshToken of the old token; an error is logged and
\* the call continues.
RefreshDelete(p) ==
    /\ authPc[p] = "refresh_delete"
    /\ \E ok \in BOOLEAN :
         refreshTokens' = IF ok THEN refreshTokens \ {authReq[p].token} ELSE refreshTokens
    /\ AuthGoto(p, "refresh_store")
    /\ UNCHANGED <<notAuthVars, userStoreVars, userAuth, passwordLock, nextToken, authReq, authLocal>>

\* RefreshToken: the new tokens are signed, authRepo.StoreRefreshToken stores the new
\* refresh token and the tokens are returned.
RefreshStore(p) ==
    /\ authPc[p] = "refresh_store"
    /\ \E ok \in BOOLEAN :
         LET token == NewRefreshToken(authReq[p].token.user)
         IN  /\ nextToken' = nextToken + 1
             /\ IF ok
                THEN /\ refreshTokens' = refreshTokens \cup {token}
                     /\ AuthReturn(p, authReq[p], NoErr, token)
                ELSE /\ refreshTokens' = refreshTokens
                     /\ AuthReturn(p, authReq[p], AuthErrInternal, NoToken)
    /\ UNCHANGED <<notAuthVars, userStoreVars, userAuth, passwordLock>>

\* Logout: authRepo.DeleteRefreshToken, its error returned.
Logout(p) ==
    /\ authPc[p] = "idle"
    /\ AuthCalls < MaxAuthCalls
    /\ \E token \in ReturnedTokens, ok \in BOOLEAN :
         LET r == [NoAuthReq EXCEPT !.op = "Logout", !.user = token.user, !.token = token]
         IN  /\ refreshTokens' = IF ok THEN refreshTokens \ {token} ELSE refreshTokens
             /\ AuthReturn(p, r, IF ok THEN NoErr ELSE AuthErrInternal, NoToken)
    /\ UNCHANGED <<notAuthVars, userStoreVars, userAuth, passwordLock, nextToken>>

\* ChangePassword, up to the call of UpdateUserPassword: authRepo.GetUserAuth,
\* hasher.Check of the old password and hasher.Hash of the new one.
ChangePassword(p) ==
    /\ authPc[p] = "idle"
    /\ AuthCalls < MaxAuthCalls
    /\ \E user \in 1..nextUser, old \in Passwords, new \in Passwords,
          ok \in BOOLEAN, hashed \in BOOLEAN :
         LET r == [NoAuthReq EXCEPT !.op = "ChangePassword", !.user = user,
                                    !.password = old, !.newPassword = new]
         IN  IF ~ok THEN AuthReturn(p, r, AuthErrInternal, NoToken)
             ELSE IF userAuth[user] = NoHash THEN AuthReturn(p, r, AuthErrUserNotFound, NoToken)
             ELSE IF ~Check(old, userAuth[user])
             THEN AuthReturn(p, r, AuthErrPasswordMismatch, NoToken)
             ELSE IF ~hashed THEN AuthReturn(p, r, AuthErrInternal, NoToken)
             ELSE /\ authReq' = [authReq EXCEPT ![p] = r]
                  /\ authLocal' = [authLocal EXCEPT ![p].hash = Hash(new)]
                  /\ AuthGoto(p, "acquire")
    /\ UNCHANGED <<notAuthVars, userStoreVars, userAuth, refreshTokens, passwordLock, nextToken>>

\* UpdateUserPassword: AcquirePasswordChangeLock (SET password_lock:<user> NX with
\* passwordLockTTL); ErrOperationLocked when the key exists.
AcquirePasswordChangeLock(p) ==
    /\ authPc[p] = "acquire"
    /\ \E ok \in BOOLEAN :
         IF ~ok
         THEN passwordLock' = passwordLock /\ AuthReturn(p, authReq[p], AuthErrInternal, NoToken)
         ELSE IF authReq[p].user \in passwordLock
         THEN passwordLock' = passwordLock
              /\ AuthReturn(p, authReq[p], AuthErrOperationLocked, NoToken)
         ELSE /\ passwordLock' = passwordLock \cup {authReq[p].user}
              /\ AuthGoto(p, "update")
              /\ UNCHANGED <<authReq, authLocal>>
    /\ UNCHANGED <<notAuthVars, userStoreVars, userAuth, refreshTokens, nextToken>>

\* UpdateUserPassword: UPDATE user_auth SET hashed_password = $1 WHERE id = $2
\* RETURNING id; on sql.ErrNoRows and on any other error it returns at once.
UpdateUserPassword(p) ==
    /\ authPc[p] = "update"
    /\ \E ok \in BOOLEAN :
         IF ~ok THEN userAuth' = userAuth /\ AuthReturn(p, authReq[p], AuthErrInternal, NoToken)
         ELSE IF userAuth[authReq[p].user] = NoHash
         THEN userAuth' = userAuth /\ AuthReturn(p, authReq[p], AuthErrUserNotFound, NoToken)
         ELSE /\ userAuth' = [userAuth EXCEPT ![authReq[p].user] = authLocal[p].hash]
              /\ AuthGoto(p, "release")
              /\ UNCHANGED <<authReq, authLocal>>
    /\ UNCHANGED <<notAuthVars, userStoreVars, refreshTokens, passwordLock, nextToken>>

\* UpdateUserPassword: "_ = r.ReleasePasswordChangeLock(ctx, userID)" (DEL of the
\* key), and nil is returned.
ReleasePasswordChangeLock(p) ==
    /\ authPc[p] = "release"
    /\ \E ok \in BOOLEAN :
         passwordLock' = IF ok THEN passwordLock \ {authReq[p].user} ELSE passwordLock
    /\ AuthReturn(p, authReq[p], NoErr, NoToken)
    /\ UNCHANGED <<notAuthVars, userStoreVars, userAuth, refreshTokens, nextToken>>

\* Redis drops password_lock:<user> when passwordLockTTL has passed.
PasswordLockExpire ==
    /\ \E user \in passwordLock : passwordLock' = passwordLock \ {user}
    /\ UNCHANGED <<notAuthVars, userStoreVars, userAuth, refreshTokens, nextToken,
                   authPc, authReq, authLocal, authLog>>

\* Redis drops a refresh-token key when refreshTokenTTL has passed.
RefreshTokenExpire ==
    /\ \E token \in refreshTokens : refreshTokens' = refreshTokens \ {token}
    /\ UNCHANGED <<notAuthVars, userStoreVars, userAuth, passwordLock, nextToken,
                   authPc, authReq, authLocal, authLog>>

NextAuth ==
    \/ \E p \in AuthProcs :
        \/ Register(p)
        \/ RegisterHash(p)
        \/ RegisterStore(p)
        \/ RegisterRollback(p)
        \/ Login(p)
        \/ LoginAuth(p)
        \/ LoginStore(p)
        \/ RefreshToken(p)
        \/ RefreshGetUser(p)
        \/ RefreshDelete(p)
        \/ RefreshStore(p)
        \/ Logout(p)
        \/ ChangePassword(p)
        \/ AcquirePasswordChangeLock(p)
        \/ UpdateUserPassword(p)
        \/ ReleasePasswordChangeLock(p)
    \/ PasswordLockExpire
    \/ RefreshTokenExpire

SpecAuth == Init /\ [][NextAuth]_vars

\* ------------------------------------------------------------------- claims
Ids == 1..nextId
\* The handler of request id has returned to its caller.
Done(id) == returned[id].done
\* A slot whose request has returned (its goroutine may still run).
Returned(p) == pc[p] # "idle" /\ Ret(p).done
\* Request a had returned when request b was issued.
Sequential(a, b) == a < b /\ a \notin overlapped[b]
\* Requests a and b were in progress at the same time.
Concurrent(a, b) == a < b /\ a \in overlapped[b]
\* A replay: the same (type, wallets, amount, idempotency_key), the key not empty.
Replay(a, b) ==
    /\ issued[a] = issued[b]
    /\ issued[a].kind \in SagaKinds
    /\ issued[a].key # NoKey
\* The committed events of a transaction, in order.
EventsOf(id) == SelectSeq(events, LAMBDA e : e.transaction_id = id)
\* Failures of the infrastructure (database, RPC transport) rather than of the request.
InfraCauses == {"db", RPCErr, RepoErrDB}

\* C1: a Deposit, Withdraw or Transfer submitted a second time after the first call
\* returned its transaction, with the same (type, wallets, amount, idempotency_key),
\* resolves (the infrastructure not failing) to the first call's transaction id and
\* applies no wallet leg.
C1_SequentialReplay ==
    \A a \in Ids : \A b \in Ids :
        (/\ Sequential(a, b) /\ Replay(a, b)
         /\ Done(a) /\ returned[a].err = NoErr
         /\ Done(b) /\ returned[b].cause \notin InfraCauses)
        => /\ returned[b].transaction_id = returned[a].transaction_id
           /\ applied[b] = << >>

\* C2: a Transfer whose debit of the source was applied and whose credit of the
\* destination failed returns with both balances as they were before the call.
C2_TransferCompensated ==
    \A p \in Procs :
        (/\ Returned(p)
         /\ req[p].kind = Transfer
         /\ Ret(p).err = ErrUpdateDestination
         /\ Len(applied[rid[p]]) = 1
         /\ ~disturbed[p])
        => /\ Balance(req[p].from) = before[p][req[p].from]
           /\ Balance(req[p].to) = before[p][req[p].to]

\* C3: no wallet balance is ever negative, and a ledger UpdateBalance whose result
\* would be negative is rejected with the repository's ErrInsufficientFunds.
C3_NoNegativeBalance ==
    /\ \A w \in Wallets : Balance(w) >= 0
    /\ \A p \in Procs :
         (call[p].checked /\ call[p].cur + call[p].amount < 0)
         => call[p].res = RepoErrInsufficientFunds

\* Two overlapping requests debit one wallet that covers only one of them: the
\* ledger applied one and rejected the other, leaving the balance at zero.
C3_Witness ==
    \E p \in Procs : \E q \in Procs \ {p} :
        /\ InProgress(p) /\ InProgress(q)
        /\ call[p].checked
        /\ call[p].res = RepoErrInsufficientFunds
        /\ applied[rid[q]] # << >>
        /\ applied[rid[q]][1].wallet = call[p].wallet
        /\ applied[rid[q]][1].delta < 0
        /\ Balance(call[p].wallet) = 0

\* C4: once a Deposit, Withdraw or Transfer has returned, every wallet change it
\* applied has a committed transaction row in a terminal state.
C4_PointOfNoReturn ==
    \A id \in Ids :
        (Done(id) /\ issued[id].kind \in SagaKinds /\ applied[id] # << >>)
        => /\ id \in DOMAIN transactions
           /\ transactions[id].status \in {Completed, Failed}

\* C5: of two requests with the same idempotency key that run concurrently, at most
\* one has a transaction row and at most one has wallet legs applied.
C5_ConcurrentReplay ==
    \A a \in Ids : \A b \in Ids :
        (Concurrent(a, b) /\ Replay(a, b))
        => /\ ~(a \in DOMAIN transactions /\ b \in DOMAIN transactions)
           /\ ~(applied[a] # << >> /\ applied[b] # << >>)

\* C6: a Deposit that returned its transaction (status completed) has a committed row
\* with status completed and, nothing else having changed the wallet since the call
\* was issued, left the balance at its value before the call plus the amount.
C6_DepositConservation ==
    \A p \in Procs :
        (Returned(p) /\ req[p].kind = Deposit /\ Ret(p).err = NoErr)
        => /\ tx[p].status = Completed
           /\ Ret(p).transaction_id \in DOMAIN transactions
           /\ transactions[Ret(p).transaction_id].status = Completed
           /\ ~disturbed[p] => Balance(req[p].to) = before[p][req[p].to] + req[p].amount

C6_Witness ==
    \E p \in Procs :
        /\ Returned(p) /\ req[p].kind = Deposit /\ Ret(p).err = NoErr
        /\ ~disturbed[p]
        /\ req[p].amount > 0
        /\ Balance(req[p].to) = before[p][req[p].to] + req[p].amount

\* C7: a Withdraw on an existing wallet, nothing else changing the wallet meanwhile,
\* completes only when the balance before covers the amount, and then leaves the
\* balance lower by the amount; when the balance before does not cover the amount it
\* fails with InsufficientFunds and the balance is as before.
C7_WithdrawConservation ==
    \A p \in Procs :
        (/\ Returned(p)
         /\ req[p].kind = Withdraw
         /\ req[p].from \in Wallets
         /\ ~InvalidAmount(req[p].amount)
         /\ ~disturbed[p])
        => IF Ret(p).err = NoErr
           THEN /\ before[p][req[p].from] >= req[p].amount
                /\ Balance(req[p].from) = before[p][req[p].from] - req[p].amount
           ELSE (before[p][req[p].from] < req[p].amount /\ Ret(p).cause \notin InfraCauses)
                => /\ Ret(p).err = ErrInsufficientFunds
                   /\ Balance(req[p].from) = before[p][req[p].from]

C9_BlockedWalletFrozen ==
    [][\A w \in Wallets : wallets[w].is_blocked => wallets'[w].balance = wallets[w].balance]_vars

\* C10: a Deposit, Withdraw or Transfer that failed before any wallet leg was applied
\* has no transaction row and no event committed, left its database transaction
\* closed and the wallets as they were, and returned the error typed by its cause:
\* InvalidArgument for a rejected amount or equal wallets, NotFound for a missing
\* wallet, FailedPrecondition for insufficient funds.
C10_PreMutationFailure ==
    \A p \in Procs :
        (/\ Returned(p)
         /\ req[p].kind \in SagaKinds
         /\ Ret(p).err # NoErr
         /\ applied[rid[p]] = << >>)
        => /\ rid[p] \notin DOMAIN transactions
           /\ EventsOf(rid[p]) = << >>
           /\ ~dbTx[p].open
           /\ ~disturbed[p] =>
                \A w \in ReqWallets(req[p]) \cap Wallets : Balance(w) = before[p][w]
           /\ Ret(p).cause = "validation" => StatusCode(Ret(p).err) = "InvalidArgument"
           /\ Ret(p).cause = RepoErrWalletNotFound => StatusCode(Ret(p).err) = "NotFound"
           /\ Ret(p).cause \in {"precheck", RepoErrInsufficientFunds}
                => StatusCode(Ret(p).err) = "FailedPrecondition"

\* The types of the committed events of a transaction, in order.
EventTypesOf(id) == [i \in 1..Len(EventsOf(id)) |-> EventsOf(id)[i].event_type]
\* A Transfer of slot p returned with its debit applied and its credit not.
CreditFailedAfterDebit(p) ==
    /\ Returned(p)
    /\ req[p].kind = Transfer
    /\ Ret(p).err = ErrUpdateDestination
    /\ Len(applied[rid[p]]) = 1

\* C11: a Transfer whose credit failed after its debit succeeded has its row persisted
\* with status failed, returned TransactionFailed, and has the event log created,
\* wallet_updated, compensation_started, compensation_completed in that order.
C11_FailedTransferRecord ==
    \A p \in Procs :
        CreditFailedAfterDebit(p)
        => /\ rid[p] \in DOMAIN transactions
           /\ transactions[rid[p]].status = Failed
           /\ Ret(p).err = ErrTransactionFailed
           /\ EventTypesOf(rid[p]) = <<EventCreated, "wallet_updated",
                                       "compensation_started", "compensation_completed">>

\* C12: a Transfer whose credit failed after its debit succeeded, the source not having
\* been credited back, is not reported or recorded as completed and is left as a
\* persisted transaction that is not completed, for a retry or compensation to act on.
C12_FailedCompensationNotSuccess ==
    \A p \in Procs :
        (CreditFailedAfterDebit(p) /\ ~disturbed[p]
         /\ Balance(req[p].from) # before[p][req[p].from])
        => /\ Ret(p).err # NoErr
           /\ rid[p] \in DOMAIN transactions
           /\ transactions[rid[p]].status # Completed

\* C13: a Deposit, Withdraw or Transfer with amount <= 0 is rejected with InvalidAmount,
\* and a Transfer of a wallet to itself with SameWallet; the handler has then returned
\* without a wallet call, a database transaction, a row, an event or a wallet leg.
C13_Validation ==
    \A p \in Procs :
        (/\ pc[p] # "idle"
         /\ req[p].kind \in SagaKinds
         /\ req[p].amount <= 0 \/ (req[p].kind = Transfer /\ req[p].from = req[p].to))
        => /\ pc[p] = "done"
           /\ Ret(p).done
           /\ Ret(p).err = IF req[p].amount <= 0 THEN ErrInvalidAmount ELSE ErrSameWallet
           /\ StatusCode(Ret(p).err) = "InvalidArgument"
           /\ call[p] = NoCall
           /\ tx[p] = NoTx
           /\ dbTx[p] = NoDbTx
           /\ applied[rid[p]] = << >>
           /\ rid[p] \notin DOMAIN transactions
           /\ EventsOf(rid[p]) = << >>
           /\ ~disturbed[p] =>
                \A w \in ReqWallets(req[p]) \cap Wallets : Balance(w) = before[p][w]

\* Both rejections have happened: an amount of zero and a transfer to the same wallet.
C13_Witness ==
    \E a \in Ids : \E b \in Ids :
        /\ issued[a].kind \in SagaKinds /\ issued[a].amount <= 0
        /\ Done(a) /\ returned[a].err = ErrInvalidAmount
        /\ issued[b].kind = Transfer /\ issued[b].amount > 0
        /\ issued[b].from = issued[b].to
        /\ Done(b) /\ returned[b].err = ErrSameWallet

\* C14: a step of the notification dispatch, failed or not, changes neither the result
\* returned to the caller, nor a transaction row, nor a wallet.
C14_NotificationIsolated ==
    [][\A p \in Procs :
          (pc[p] \in {"notify", "notify2"} /\ pc'[p] # pc[p])
          => /\ returned' = returned
             /\ transactions' = transactions
             /\ tx' = tx
             /\ wallets' = wallets]_vars

\* The dispatch of a committed transaction ended with nothing published, and the
\* request stays completed.
C14_Witness ==
    \E p \in Procs :
        /\ pc[p] = "done"
        /\ req[p].kind \in SagaKinds
        /\ Ret(p).err = NoErr
        /\ Ret(p).transaction_id \in DOMAIN transactions
        /\ transactions[Ret(p).transaction_id].status = Completed
        /\ \A n \in published : n.transaction_id # Ret(p).transaction_id

\* C15: no step changes a transaction row that is completed or failed.
C15_TerminalImmutable ==
    [][\A id \in DOMAIN transactions :
          transactions[id].status \in {Completed, Failed}
          => /\ id \in DOMAIN transactions'
             /\ transactions'[id] = transactions[id]]_vars

\* A second transaction was committed after the first one was completed, and the
\* dispatch of the first one has ended.
C15_Witness ==
    /\ 1 \in DOMAIN transactions
    /\ 2 \in DOMAIN transactions
    /\ Sequential(1, 2)
    /\ transactions[1].status = Completed
    /\ \A p \in Procs : pc[p] = "done"

\* The error the interface names for a retry or compensation that is not eligible.
InvalidSagaState == "InvalidSagaState"
\* Request id names a transaction that was committed in a terminal state before.
OnTerminal(id) ==
    /\ issued[id].kind \in StubKinds
    /\ issued[id].transaction_id < id
    /\ Sequential(issued[id].transaction_id, id)
    /\ issued[id].transaction_id \in DOMAIN transactions
    /\ transactions[issued[id].transaction_id].status \in {Completed, Failed}

\* C16: RetryTransaction on a transaction in a terminal state fails with
\* InvalidSagaState and applies no wallet leg.
C16_RetryTerminal ==
    \A id \in Ids :
        (Done(id) /\ issued[id].kind = RetryTransaction /\ OnTerminal(id))
        => /\ returned[id].err = InvalidSagaState
           /\ applied[id] = << >>

\* C17: CompensateTransaction on a completed transaction is accepted and applies the
\* inverse of each wallet leg of the transaction, in reverse order.
C17_CompensateCompleted ==
    \A id \in Ids :
        (Done(id) /\ issued[id].kind = CompensateTransaction /\ OnTerminal(id)
         /\ transactions[issued[id].transaction_id].status = Completed)
        => LET legs == applied[issued[id].transaction_id]
           IN  /\ returned[id].err = NoErr
               /\ applied[id] = [i \in 1..Len(legs) |->
                                   [wallet |-> legs[Len(legs) + 1 - i].wallet,
                                    delta |-> 0 - legs[Len(legs) + 1 - i].delta]]

\* The rows of the table a history query with wallet w counts.
RowsOf(w) == {i \in DOMAIN history.rows :
                 history.rows[i].source = w \/ history.rows[i].destination = w}
\* A history query was answered.
Answered == history.result.answered /\ history.result.err = NoErr

\* C18: a history response has page = the requested page (1 when < 1), total_pages =
\* ceil(total_count / limit) with limit the requested limit (10 when < 1), and holds
\* the rows from offset (page - 1) * limit on, at most limit of them, all of the wallet.
C18_Pagination ==
    Answered =>
        LET f == history.filter
            res == history.result
            page == IF f.page < 1 THEN 1 ELSE f.page
            limit == IF f.limit < 1 THEN 10 ELSE f.limit
            rest == res.total_count - (page - 1) * limit
        IN  /\ res.page = page
            /\ res.total_count = Cardinality(RowsOf(f.wallet_id))
            /\ res.total_pages * limit >= res.total_count
            /\ (res.total_pages - 1) * limit < res.total_count
            /\ Len(res.transactions) <= limit
            /\ Len(res.transactions) = IF rest < 0 THEN 0
                                       ELSE IF rest < limit THEN rest ELSE limit
            /\ \A i \in DOMAIN res.transactions :
                  res.transactions[i].id \in RowsOf(f.wallet_id)

\* The second page of one row each, of a wallet with two rows.
C18_Witness ==
    /\ Answered
    /\ history.filter.page = 2
    /\ history.filter.limit = 1
    /\ history.result.total_count = 2
    /\ history.result.total_pages = 2
    /\ Len(history.result.transactions) = 1

\* C19: a history response is ordered, in the requested direction, by the field sort_by
\* names when that is created_at, amount, type or status, and by created_at for a value
\* outside the allow-list.
C19_SortAllowList ==
    (Answered /\ history.filter.sort_by # "transaction_type") =>
        LET f == history.filter
            rows == history.result.transactions
            key(r) == IF f.sort_by = "amount" THEN r.amount
                      ELSE IF f.sort_by = "type" THEN Rank(TypeOrder, r.type)
                      ELSE IF f.sort_by = "status" THEN Rank(StatusOrder, r.status)
                      ELSE r.created_at
        IN  \A i \in DOMAIN rows : \A j \in DOMAIN rows :
                i < j => IF f.ascending THEN key(rows[i]) <= key(rows[j])
                         ELSE key(rows[i]) >= key(rows[j])

\* C20: a Deposit, Withdraw or Transfer that returned after its transaction row was
\* created, with an error or not, returned the id of the transaction.
C20_ResponseCarriesId ==
    \A p \in Procs :
        (/\ Returned(p)
         /\ req[p].kind \in SagaKinds
         /\ Ret(p).err \in {NoErr, ErrAddEvent, ErrUpdateWallet, ErrUpdateSource,
                            ErrUpdateDestination, ErrUpdateStatus, ErrCommit})
        => /\ tx[p].id = rid[p]
           /\ Ret(p).transaction_id = tx[p].id

\* The ledger changes committed for the request of slot p.
AppliedOf(p) == applied[rid[p]]
\* The debit of the source wallet of the Transfer of slot p, as the ledger records it.
SourceDebit(p) == [wallet |-> req[p].from, delta |-> 0 - req[p].amount]

LedgerCommits(p) == call[p].stage = "apply" /\ call'[p].stage = "cache"

\* C22: the UpdateBalance calls on a wallet take effect one at a time: the step that
\* commits a call adds its amount to the balance the call before it left and the call
\* returns that new balance, a call that fails leaves the balance, and nothing else
\* changes a balance; so the final balance is that of the successful calls applied in
\* the order of their commits, none lost.
C22_Linearizable ==
    [][/\ \A p \in Procs :
            /\ LedgerCommits(p)
               => /\ wallets'[call[p].wallet].balance
                        = Balance(call[p].wallet) + call[p].amount
                  /\ call'[p].row.balance = wallets'[call[p].wallet].balance
            /\ (call[p].stage \in {"lock", "apply"} /\ call'[p].stage = "ret")
               => wallets' = wallets
       /\ \A w \in Wallets :
            wallets'[w].balance # Balance(w)
            => \E p \in Procs : LedgerCommits(p) /\ call[p].wallet = w
      ]_vars

\* Two requests in progress at the same time both changed one wallet, which holds the
\* sum of their changes.
C22_Witness ==
    \E a \in Ids : \E b \in Ids :
        /\ Concurrent(a, b)
        /\ applied[a] # << >> /\ applied[b] # << >>
        /\ applied[a][1].wallet = "w1" /\ applied[b][1].wallet = "w1"
        /\ Balance("w1") = InitBalance + applied[a][1].delta + applied[b][1].delta
        /\ applied[a][1].delta = applied[b][1].delta

\* C23: every exit path of the ledger's UpdateBalance ends its transaction, so a row
\* lock is held only by a call that is between its SELECT ... FOR UPDATE and its exit,
\* never by a call that has finished.
C23_RowLockReleased ==
    \A w \in Wallets :
        rowLock[w] # Unlocked
        => (call[rowLock[w]].stage = "apply" /\ call[rowLock[w]].wallet = w)

\* Requests a and b are UpdateBalance calls with the same wallet and the same reference.
SameOpRef(a, b) ==
    /\ a < b
    /\ issued[a].kind = UpdateBalanceRPC /\ issued[b].kind = UpdateBalanceRPC
    /\ issued[a].to = issued[b].to
    /\ issued[a].key = issued[b].key /\ issued[a].key # NoKey

\* C24: each wallet leg call of a saga carries a transaction reference, and two ledger
\* UpdateBalance calls with the same wallet and the same reference change the balance
\* once.
C24_OpRefIdempotent ==
    /\ \A p \in Procs :
         (pc[p] \in {"leg1", "leg2"} /\ call[p].stage # "none") => call[p].ref # NoKey
    /\ \A a \in Ids : \A b \in Ids :
         SameOpRef(a, b) => Len(applied[a]) + Len(applied[b]) <= 1

\* The wallet row the GetBalance of slot p answers from: the row just read from the
\* table, or else the cache entry.
GetBalanceRow(p) == IF call[p].stage = "gbset" THEN call[p].row ELSE cache[GbWallet(p)]

\* C25: the saga moves forward one state at a time: it passes its wallet check
\* (WALLET_CHECKED) only when GetBalance confirmed that the wallet leg exists and is
\* not blocked, and passes its wallet update (WALLET_UPDATED) only when every leg
\* was applied.
C25_SagaStateOrder ==
    [][\A p \in Procs :
          /\ (pc[p] \in {"gb", "gb2"} /\ pc'[p] \in {"gb2", "begin"} /\ pc'[p] # pc[p])
             => (GetBalanceRow(p).present /\ ~GetBalanceRow(p).is_blocked)
          /\ (pc[p] # "status" /\ pc'[p] = "status")
             => (pc[p] \in {"leg1", "leg2"} /\ Len(AppliedOf(p)) = Len(Legs(req[p])))
      ]_vars

CommittedCompleted(id) == id \in DOMAIN transactions /\ transactions[id].status = Completed

\* C27: a notification is dispatched only for a transaction whose completed row is
\* committed, never for one rolled back, and the dispatch, which starts when the
\* handler has returned to its caller, does not depend on the request any more.
C27_NotifyAfterCommit ==
    /\ \A n \in published : CommittedCompleted(n.transaction_id)
    /\ \A p \in Procs :
         pc[p] \in {"notify", "notify2"}
         => /\ CommittedCompleted(rid[p])
            /\ ~dbTx[p].open
            /\ Ret(p).done
            /\ ENABLED Notify(p)

\* A notification of a committed transaction is published after its request returned.
C27_Witness ==
    \E p \in Procs :
        /\ pc[p] = "done" /\ Ret(p).done /\ Ret(p).err = NoErr
        /\ \E n \in published : n.transaction_id = rid[p]
        /\ CommittedCompleted(rid[p])

\* C28: once the notification dispatch of a committed transaction has ended, with
\* success or with failure, the event log of the transaction holds a
\* notification_sent event.
C28_NotificationSentRecorded ==
    \A p \in Procs :
        (/\ pc[p] = "done"
         /\ req[p].kind \in SagaKinds
         /\ Ret(p).err = NoErr
         /\ CommittedCompleted(rid[p]))
        => \E i \in DOMAIN EventTypesOf(rid[p]) :
              EventTypesOf(rid[p])[i] = EventNotificationSent

\* The steps of a saga attempt, in the order of the handler's code.
SagaSteps == <<"gb", "gb2", "begin", "create", "event", "leg1", "leg2", "status",
               "cevent", "commit", "notify", "notify2", "done">>
\* Slot p goes on with the same attempt in this step.
SameAttempt(p) == rid'[p] = rid[p] /\ req[p].kind \in SagaKinds /\ pc[p] # "idle"
\* The handler of slot p sends an UpdateBalance request in this step.
IssuesLeg(p) == call'[p].stage = "lock" /\ call[p].stage # "lock"

\* C29: a saga attempt only moves forward through its steps: each UpdateBalance
\* request and each store write is made by a step that leaves its position for a
\* later one, so each leg is requested once and each write made once, and a leg that
\* failed ends the attempt.
C29_NoSilentRetry ==
    [][\A p \in Procs :
          SameAttempt(p)
          => /\ Rank(SagaSteps, pc'[p]) >= Rank(SagaSteps, pc[p])
             /\ IssuesLeg(p)
                => /\ Rank(SagaSteps, pc'[p]) > Rank(SagaSteps, pc[p])
                   /\ pc'[p] \in {"leg1", "leg2"}
             /\ dbTx'[p] # dbTx[p] => Rank(SagaSteps, pc'[p]) > Rank(SagaSteps, pc[p])
             /\ (/\ pc[p] \in {"leg1", "leg2"}
                 /\ call[p].stage = "ret" /\ call[p].res # RepoOK
                 /\ call'[p] # call[p])
                => (pc'[p] = "done" /\ call'[p] = NoCall)
      ]_vars

\* The first leg of a Transfer failed at the ledger and the attempt ended with that
\* one request made.
C29_Witness ==
    \E p \in Procs :
        /\ pc[p] = "done"
        /\ req[p].kind = Transfer
        /\ Ret(p).err = ErrUpdateSource
        /\ Ret(p).cause = RepoErrInsufficientFunds
        /\ AppliedOf(p) = << >>

\* The shape of a transaction row by its type.
WellShaped(row) ==
    /\ row.amount > 0
    /\ row.type = Deposit => (row.source = NoWallet /\ row.destination # NoWallet)
    /\ row.type = Withdraw => (row.source # NoWallet /\ row.destination = NoWallet)
    /\ row.type = Transfer => /\ row.source # NoWallet /\ row.destination # NoWallet
                              /\ row.source # row.destination
    /\ row.type \in SagaKinds

\* C30: every persisted transaction, committed or inserted in an open database
\* transaction, has amount > 0; a deposit has no source and a destination, a withdraw
\* a source and no destination, a transfer both and distinct ones.
C30_TransactionShape ==
    /\ \A id \in DOMAIN transactions : WellShaped(transactions[id])
    /\ \A p \in Procs : dbTx[p].row # NoTx => WellShaped(dbTx[p].row)

\* A transfer and a deposit are committed.
C30_Witness ==
    /\ \E id \in DOMAIN transactions : transactions[id].type = Transfer
    /\ \E id \in DOMAIN transactions : transactions[id].type = Deposit

\* The rows of the event log of transaction id, as a set.
LoggedOf(log, id) == {log.rows[i] : i \in {j \in DOMAIN log.rows : log.rows[j].transaction_id = id}}

\* C31: the event log only grows, every row it held staying as it was, and
\* GetTransactionEvents returns the events of the transaction, each once, in
\* non-decreasing created_at order.
C31_AppendOnly ==
    [][/\ Len(eventLog'.rows) >= Len(eventLog.rows)
       /\ \A i \in DOMAIN eventLog.rows : eventLog'.rows[i] = eventLog.rows[i]
       /\ eventLog'.result # eventLog.result \/ eventLog'.queried # eventLog.queried
          => LET q == eventLog'.result
             IN  /\ {q[i] : i \in DOMAIN q} = LoggedOf(eventLog', eventLog'.queried)
                 /\ Len(q) = Cardinality(LoggedOf(eventLog', eventLog'.queried))
                 /\ \A i, j \in DOMAIN q : i < j => q[i].created_at <= q[j].created_at
      ]_vars

\* Two events of one transaction were inserted with the later clock value first, and
\* the query returned them in created_at order.
C31_Witness ==
    /\ Len(eventLog.rows) >= 2
    /\ eventLog.rows[1].transaction_id = eventLog.rows[2].transaction_id
    /\ eventLog.rows[1].created_at > eventLog.rows[2].created_at
    /\ eventLog.queried = eventLog.rows[1].transaction_id
    /\ Len(eventLog.result) >= 2
    /\ eventLog.result[1] = eventLog.rows[2]

\* The handler of slot p got past its GetBalance pre-check (it built its transaction).
PassedPreCheck(p) == tx[p].id = rid[p]
\* Slots p and q ran debits of one wallet that both passed the pre-check, the balance
\* covering either but not both, nothing failing but the ledger's own check and no
\* other request changing the wallet.
RacingDebits(p, q) ==
    /\ p # q /\ rid[p] < rid[q]
    /\ pc[p] = "done" /\ pc[q] = "done"
    /\ req[p].kind \in {Withdraw, Transfer} /\ req[q].kind \in {Withdraw, Transfer}
    /\ req[p].from = req[q].from /\ req[p].from \in Wallets
    /\ PassedPreCheck(p) /\ PassedPreCheck(q)
    /\ Ret(p).cause \notin InfraCauses /\ Ret(q).cause \notin InfraCauses
    /\ before[p][req[p].from] >= req[p].amount
    /\ before[p][req[p].from] >= req[q].amount
    /\ before[p][req[p].from] < req[p].amount + req[q].amount
    /\ \A c \in Ids \ {rid[p], rid[q]} :
          \A i \in DOMAIN applied[c] : applied[c][i].wallet # req[p].from
\* Of two racing debits, slot w completed and slot l was rejected by the ledger and
\* left nothing behind.
WinnerAndLoser(w, l) ==
    /\ Ret(w).err = NoErr
    /\ CommittedCompleted(rid[w])
    /\ Ret(l).err # NoErr
    /\ Ret(l).cause = RepoErrInsufficientFunds
    /\ applied[rid[l]] = << >>
    /\ rid[l] \notin DOMAIN transactions
    /\ EventsOf(rid[l]) = << >>
    /\ ~dbTx[l].open
    /\ Balance(req[w].from) = before[IF rid[w] < rid[l] THEN w ELSE l][req[w].from]
                                 - req[w].amount

DatabaseRowNext(w) ==
    [present |-> TRUE, balance |-> wallets'[w].balance, is_blocked |-> wallets'[w].is_blocked]

\* This step is the successful cacheWallet of the call of p on wallet w.
CacheWritten(p, w) ==
    /\ call[p].stage = "cache"
    /\ call[p].wallet = w
    /\ call'[p].stage = "ret"
    /\ cache'[w] = call[p].row

\* No other call on wallet w is between its start and its cache write.
LastCallOn(p, w) ==
    \A q \in Procs \ {p} :
       ~(call[q].wallet = w /\ call[q].stage \in {"lock", "apply", "block", "cache", "gbset"})

\* The cache entry of wallet w is the database row (the writes before were coherent).
CacheIsRow(w) ==
    cache[w] = [present |-> TRUE, balance |-> wallets[w].balance,
                is_blocked |-> wallets[w].is_blocked]

\* C33: wallet cache coherence.  When the last of the concurrent UpdateBalance,
\* BlockWallet and UnblockWallet calls on a wallet writes the cache, over an entry
\* that every earlier write left equal to the database row, the cached entry equals
\* the database row afterwards.
C33_CacheCoherent ==
    [][\A p \in Procs, w \in Wallets :
         (CacheWritten(p, w) /\ LastCallOn(p, w) /\ CacheIsRow(w))
            => cache'[w] = DatabaseRowNext(w)]_vars


\* ---- C34
\* This step is a statement of the ledger UpdateBalance call of p.
UpdateBalanceStep(p) == call[p].stage \in {"lock", "apply"} /\ call'[p] # call[p]

\* This step is the UPDATE of the Block or Unblock call of p.
BlockStep(p) == call[p].stage = "block" /\ call'[p] # call[p]

\* Every row but that of wallet id is as it was.
OtherRowsKept(id) == \A w \in Wallets \ {id} : wallets'[w] = wallets[w]

\* C34: single-wallet frame.  A ledger UpdateBalance(w, amount) changes at most the
\* balance of wallet w, and no row at all when it returns WalletNotFound or
\* InsufficientFunds; Block and Unblock change at most is_blocked and block_reason of
\* their wallet (Block sets the reason given, Unblock clears it), never a balance or
\* an owner, and nothing when they fail.
C34_SingleWalletFrame ==
    [][\A p \in Procs :
         LET id == call[p].wallet IN
         /\ UpdateBalanceStep(p)
              => /\ OtherRowsKept(id)
                 /\ id \in Wallets
                      => wallets'[id] = [wallets[id] EXCEPT !.balance = wallets'[id].balance]
                 /\ call'[p].res \in {RepoErrWalletNotFound, RepoErrInsufficientFunds}
                      => wallets' = wallets
         /\ BlockStep(p)
              => /\ OtherRowsKept(id)
                 /\ id \in Wallets
                      => /\ wallets'[id].balance = wallets[id].balance
                         /\ wallets'[id].user_id = wallets[id].user_id
                 /\ call'[p].res # RepoOK => wallets' = wallets
                 /\ (call'[p].res = RepoOK /\ req[p].kind = BlockWallet)
                      => wallets'[id].is_blocked /\ wallets'[id].block_reason \in Reasons
                 /\ (call'[p].res = RepoOK /\ req[p].kind = UnblockWallet)
                      => ~wallets'[id].is_blocked /\ wallets'[id].block_reason = NullReason]_vars

\* A Block has just set the reason on a wallet whose balance an UpdateBalance changed
\* before.
C34_Witness ==
    \E p \in Procs :
       /\ call[p].stage = "cache" /\ req[p].kind = BlockWallet
       /\ call[p].wallet \in Wallets
       /\ wallets[call[p].wallet].is_blocked
       /\ wallets[call[p].wallet].block_reason \in Reasons
       /\ wallets[call[p].wallet].balance
            # (IF call[p].wallet = "w1" THEN InitBalance ELSE 0)


\* ---- C39
\* The cache holds under this key a user that is not the row of the table.
UserStale(key) == userCache[key] # NoUser /\ userCache[key] # getUserByField(key)

\* C39: user cache-aside coherence.  Once an Update or a Delete has returned, no call
\* is in flight and no cache operation has failed, no key of the cache holds a
\* record other than the row of the table (none that GetByID or GetByUsername would
\* return in place of the updated row, or of "not found").
C39_UserCacheCoherent ==
    (/\ \A p \in UserProcs : userPc[p] = "idle"
     /\ ~userCacheErr
     /\ \E i \in DOMAIN userLog : userLog[i].op \in {"Update", "Delete"} /\ userLog[i].err = NoErr)
    => \A key \in UserKeys : ~UserStale(key)


\* ---- C35
\* The successful exchanges of refresh token t.
Exchanges(t) ==
    {i \in DOMAIN authLog :
        authLog[i].op = "RefreshToken" /\ authLog[i].err = NoErr /\ authLog[i].presented = t}

\* C35: refresh-token rotation is single-use.  No refresh token has been exchanged
\* successfully by RefreshToken more than once, and once the exchange of a token has
\* returned, Redis no longer holds the token.
C35_RefreshSingleUse ==
    \A i \in DOMAIN authLog :
       (authLog[i].op = "RefreshToken" /\ authLog[i].err = NoErr)
          => /\ Cardinality(Exchanges(authLog[i].presented)) <= 1
             /\ authLog[i].presented \notin refreshTokens

\* ---- C36
\* This step is the return of the UpdateUserPassword of slot p, which had acquired the
\* lock of its user.
UpdateUserPasswordReturns(p) ==
    authPc[p] \in {"update", "release"} /\ authPc'[p] = "idle"

\* C36: the password-change lock is released on every exit path.  When an
\* UpdateUserPassword that acquired the lock returns (no other call for the user
\* being between its acquire and its return), the lock of the user is not held.
C36_PasswordLockReleased ==
    [][\A p \in AuthProcs :
         (/\ UpdateUserPasswordReturns(p)
          /\ \A q \in AuthProcs \ {p} :
                ~(authPc[q] \in {"update", "release"} /\ authReq[q].user = authReq[p].user))
            => authReq[p].user \notin passwordLock']_vars

\* ---- C37
\* C37: ChangePassword is a compare-and-set.  When the UPDATE of a ChangePassword
\* replaces the stored password, the old password of the request matches the password
\* stored at that moment.
C37_ChangePasswordCAS ==
    [][\A p \in AuthProcs :
         (authPc[p] = "update" /\ authPc'[p] = "release")
            => Check(authReq[p].password, userAuth[authReq[p].user])]_vars

\* ---- C38
\* C38: Register is all-or-nothing.  When Register returns an error after it created
\* the user row, the row is gone; when it returns a user id, the user row and the
\* auth record exist.
C38_RegisterAllOrNothing ==
    [][\A p \in AuthProcs :
         /\ (authPc[p] = "reg_rollback" /\ authPc'[p] = "idle")
               => users'[authLocal[p].user.id] = NoUser
         /\ (authPc[p] = "reg_store" /\ authPc'[p] = "idle")
               => /\ users'[authLocal[p].user.id] # NoUser
                  /\ userAuth'[authLocal[p].user.id] # NoHash]_vars

====
